---- MODULE Spec2Model ----
(***************************************************************************)
(* Model of the pixel-art tile generator tools/generate_tiles.py, of the   *)
(* pipelines of tools/asset_pipeline.py, of the tileset extractor          *)
(* tools/extract_tileset.py and of the fuzz hooks                          *)
(* tests/schemathesis/hooks.py.                                            *)
(*                                                                         *)
(* The generator is a library of pure functions over RGBA rasters.  The    *)
(* state machine is a caller that, from the idle state, invokes one        *)
(* function on inputs drawn from bounded sets, holds the arguments and the *)
(* returned value, and then returns to idle.  A function modelled step by  *)
(* step keeps its local variables in frame while it runs.                  *)
(*                                                                         *)
(* An image is a record [w, h, px] with px a function from <<x, y>>        *)
(* (0-based, x to the right, y downwards) to a pixel <<r, g, b, a>>.       *)
(* A numpy 2-D array is a 1-based sequence of rows, each a 1-based         *)
(* sequence of cells, so array[y, x] is arr[y + 1][x + 1].                 *)
(***************************************************************************)
EXTENDS Integers, Sequences, FiniteSets, TLC

VARIABLES pc, op, args, ret, frame

\* the module globals of the fuzz hooks tests/schemathesis/hooks.py
VARIABLES _session_token, _agent_id, _room_id, _skill_id, _action_id,
          _meeting_id

credentials == <<_session_token, _agent_id, _room_id, _skill_id, _action_id,
                 _meeting_id>>

vars == <<pc, op, args, ret, frame, credentials>>

(***************************************************************************)
(* Bounds of the model.                                                    *)
(***************************************************************************)
MaxMask == 12     \* largest width and height of a dither mask
MaxBlend == 9     \* largest width and height of a dither-blended tile
MaxTile == 6      \* largest width and height of a single autotile's center
MaxSetTile == 4   \* largest width and height of an autotile set's center
MaxScale == 3     \* largest width and height of a scale2x input tile
MaxResizeIn == 3  \* largest width and height of a tile given to resize_tile
MaxResizeTo == 8  \* largest target size given to resize_tile
MaxFactor == 3    \* largest integer factor of a nearest-neighbour round trip
MaxColors == 4    \* largest max_colors given to extract_palette
MaxPalette == 2   \* largest length of a palette given to palette_swap
MaxSheet == 4     \* largest width and height of an image tiles are cropped from
MaxCell == 2      \* largest column and row of a cropped tile
MaxTilemap == 12  \* largest number of pixels of a tilemap whose palette is extracted
MaxBatch == 4     \* largest width and height of a tilemap given to batch_resize_tilemap
MaxCells == 4     \* largest number of tiles of such a tilemap
MaxBatchTo == 3   \* largest target size given to batch_resize_tilemap
MaxPacks == 3     \* largest number of tilemaps given to pipeline_palette
MaxGridCells == 2 \* largest number of cells of an extracted tileset
MaxSourceCol == 2 \* largest source column of a slot of the manifest

(***************************************************************************)
(* Arithmetic helpers.                                                     *)
(***************************************************************************)
Min(a, b) == IF a < b THEN a ELSE b

Max(a, b) == IF a > b THEN a ELSE b

\* math.ceil(a / b) for a >= 0, b > 0
Ceil(a, b) == (a + b - 1) \div b

\* bool(value & bit) for bit a power of two
BitAnd(value, bit) == (value \div bit) % 2 = 1

(***************************************************************************)
(* Bayer matrices: the integer numerators of the source; the division by   *)
(* n*n is carried in BayerDiv.                                             *)
(***************************************************************************)
BAYER_2X2 ==
  << <<0, 2>>,
     <<3, 1>> >>

BAYER_4X4 ==
  << << 0,  8,  2, 10>>,
     <<12,  4, 14,  6>>,
     << 3, 11,  1,  9>>,
     <<15,  7, 13,  5>> >>

BAYER_8X8 ==
  << << 0, 32,  8, 40,  2, 34, 10, 42>>,
     <<48, 16, 56, 24, 50, 18, 58, 26>>,
     <<12, 44,  4, 36, 14, 46,  6, 38>>,
     <<60, 28, 52, 20, 62, 30, 54, 22>>,
     << 3, 35, 11, 43,  1, 33,  9, 41>>,
     <<51, 19, 59, 27, 49, 17, 57, 25>>,
     <<15, 47,  7, 39, 13, 45,  5, 37>>,
     <<63, 31, 55, 23, 61, 29, 53, 21>> >>

\* the divisor of a matrix: len * len (4.0, 16.0, 64.0 in the source)
BayerDiv(bayer) == Len(bayer) * Len(bayer)

(***************************************************************************)
(* The 47-entry bitmask -> name table, in the source's insertion order.    *)
(***************************************************************************)
BLOB47_CATEGORIES ==
  << <<0, "isolated">>,
     <<1, "n_only">>, <<4, "e_only">>, <<16, "s_only">>, <<64, "w_only">>,
     <<17, "ns_pipe">>, <<68, "ew_pipe">>,
     <<5, "ne_corner">>, <<20, "se_corner">>, <<80, "sw_corner">>, <<65, "nw_corner">>,
     <<21, "nse_tee">>, <<84, "sew_tee">>, <<81, "nsw_tee">>, <<69, "new_tee">>,
     <<85, "cross">>,
     <<7, "ne_corner_filled">>, <<28, "se_corner_filled">>,
     <<112, "sw_corner_filled">>, <<193, "nw_corner_filled">>,
     <<23, "nse_inner_se">>, <<29, "nse_inner_ne">>,
     <<116, "sew_inner_sw">>, <<92, "sew_inner_se">>,
     <<209, "nsw_inner_nw">>, <<113, "nsw_inner_sw">>,
     <<71, "new_inner_ne">>, <<197, "new_inner_nw">>,
     <<87, "cross_ne">>, <<93, "cross_se">>, <<117, "cross_sw">>, <<213, "cross_nw">>,
     <<95, "cross_ne_se">>, <<119, "cross_ne_sw">>,
     <<215, "cross_nw_se">>, <<221, "cross_nw_sw">>,
     <<125, "cross_se_sw">>, <<245, "cross_nw_ne">>,
     <<127, "cross_ne_se_sw">>, <<223, "cross_nw_ne_se">>,
     <<253, "cross_nw_ne_sw">>, <<247, "cross_nw_se_sw">>,
     <<255, "full">>,
     <<31, "nse_both">>, <<124, "sew_both">>,
     <<241, "nsw_both">>, <<199, "new_both">> >>

\* BLOB47_CATEGORIES.keys()
BlobKeys == {BLOB47_CATEGORIES[i][1] : i \in DOMAIN BLOB47_CATEGORIES}

\* BLOB47_CATEGORIES[bitmask]
BlobName(bitmask) ==
  LET i == CHOOSE j \in DOMAIN BLOB47_CATEGORIES : BLOB47_CATEGORIES[j][1] = bitmask
  IN BLOB47_CATEGORIES[i][2]

(***************************************************************************)
(* compute_bitmask                                                         *)
(***************************************************************************)
NeighborNames == {"N", "NE", "E", "SE", "S", "SW", "W", "NW"}

NeighborMaps == [NeighborNames -> BOOLEAN]

\* compute_bitmask with the north-east corner gated on the north edge only
compute_bitmask_ne_one_edge(neighbor_map) ==
  LET n == neighbor_map["N"]
      e == neighbor_map["E"]
      s == neighbor_map["S"]
      w == neighbor_map["W"]
  IN (IF n THEN 1 ELSE 0)
     + (IF neighbor_map["NE"] /\ n THEN 2 ELSE 0)
     + (IF e THEN 4 ELSE 0)
     + (IF neighbor_map["SE"] /\ s /\ e THEN 8 ELSE 0)
     + (IF s THEN 16 ELSE 0)
     + (IF neighbor_map["SW"] /\ s /\ w THEN 32 ELSE 0)
     + (IF w THEN 64 ELSE 0)
     + (IF neighbor_map["NW"] /\ n /\ w THEN 128 ELSE 0)

\* compute_bitmask with every neighbour copied to its bit, corners ungated
compute_bitmask_raw(neighbor_map) ==
  (IF neighbor_map["N"] THEN 1 ELSE 0)
  + (IF neighbor_map["NE"] THEN 2 ELSE 0)
  + (IF neighbor_map["E"] THEN 4 ELSE 0)
  + (IF neighbor_map["SE"] THEN 8 ELSE 0)
  + (IF neighbor_map["S"] THEN 16 ELSE 0)
  + (IF neighbor_map["SW"] THEN 32 ELSE 0)
  + (IF neighbor_map["W"] THEN 64 ELSE 0)
  + (IF neighbor_map["NW"] THEN 128 ELSE 0)

compute_bitmask(neighbor_map) ==
  LET n == neighbor_map["N"]
      ne == neighbor_map["NE"]
      e == neighbor_map["E"]
      se == neighbor_map["SE"]
      s == neighbor_map["S"]
      sw == neighbor_map["SW"]
      w == neighbor_map["W"]
      nw == neighbor_map["NW"]
      effective_ne == ne /\ n /\ e
      effective_se == se /\ s /\ e
      effective_sw == sw /\ s /\ w
      effective_nw == nw /\ n /\ w
  IN (IF n THEN 1 ELSE 0)
     + (IF effective_ne THEN 2 ELSE 0)
     + (IF e THEN 4 ELSE 0)
     + (IF effective_se THEN 8 ELSE 0)
     + (IF s THEN 16 ELSE 0)
     + (IF effective_sw THEN 32 ELSE 0)
     + (IF w THEN 64 ELSE 0)
     + (IF effective_nw THEN 128 ELSE 0)

(***************************************************************************)
(* Rasters (PIL images as the generator uses them).                        *)
(***************************************************************************)
Coords(w, h) == (0 .. w - 1) \X (0 .. h - 1)

\* Image.new("RGBA", (w, h), color)
ImageNew(w, h, color) == [w |-> w, h |-> h, px |-> [p \in Coords(w, h) |-> color]]

\* image.crop((x0, y0, x1, y1)) for a box inside the image
Crop(img, x0, y0, x1, y1) ==
  [w |-> x1 - x0, h |-> y1 - y0,
   px |-> [p \in Coords(x1 - x0, y1 - y0) |-> img.px[<<p[1] + x0, p[2] + y0>>]]]

\* dst.paste(src, (x0, y0)): every channel of the covered cells is replaced
Paste(dst, src, x0, y0) ==
  [dst EXCEPT !.px =
     [p \in DOMAIN dst.px |->
        IF /\ p[1] >= x0 /\ p[1] < x0 + src.w
           /\ p[2] >= y0 /\ p[2] < y0 + src.h
        THEN src.px[<<p[1] - x0, p[2] - y0>>]
        ELSE dst.px[p]]]

\* float64: the resampler adds insize / outsize to a running coordinate
\* that starts at half of it; where the centre of output cell i falls on the
\* border of two source cells and the quotient is not a binary fraction, the
\* sum ends just below the border.  These are all such <<insize, outsize, i>>
\* for sizes up to 16.
NearestBelow ==
  {<<2, 7, 3>>, <<2, 15, 7>>, <<4, 6, 4>>, <<4, 7, 3>>, <<4, 10, 7>>,
   <<4, 14, 3>>, <<4, 14, 10>>, <<4, 15, 7>>, <<6, 9, 4>>, <<6, 11, 5>>,
   <<6, 15, 7>>, <<8, 6, 4>>, <<8, 7, 3>>, <<8, 10, 7>>, <<8, 12, 4>>,
   <<8, 14, 3>>, <<8, 14, 10>>, <<8, 15, 7>>, <<10, 15, 4>>, <<12, 9, 4>>,
   <<12, 11, 5>>, <<12, 15, 7>>, <<14, 5, 2>>, <<14, 11, 5>>, <<14, 13, 6>>,
   <<16, 6, 4>>, <<16, 7, 3>>, <<16, 10, 7>>, <<16, 12, 4>>, <<16, 14, 3>>,
   <<16, 14, 10>>, <<16, 15, 7>>}

NearestIndex_upper(i, insize, outsize) ==
  Min(insize - 1, ((2 * i + 1) * insize + outsize) \div (2 * outsize))

\* source index of output index i in a nearest-neighbour resample from
\* insize to outsize cells: the cell holding the centre of output cell i
NearestIndex(i, insize, outsize) ==
  ((2 * i + 1) * insize) \div (2 * outsize)
  - (IF <<insize, outsize, i>> \in NearestBelow THEN 1 ELSE 0)

\* image.resize((w, h), Image.Resampling.NEAREST)
ResizeNearest(img, w, h) ==
  [w |-> w, h |-> h,
   px |-> [p \in Coords(w, h) |->
             img.px[<<NearestIndex(p[1], img.w, w), NearestIndex(p[2], img.h, h)>>]]]

\* a weighted average of the two pixels where the mask is set
WherePixel_average(m, pb, pa) ==
  [c \in 1 .. 4 |-> IF m THEN (pb[c] + pa[c]) \div 2 ELSE pa[c]]

\* np.where(m, arr_b, arr_a) on one cell: the mask cell is broadcast over
\* the four channels
WherePixel(m, pb, pa) == [c \in 1 .. 4 |-> IF m THEN pb[c] ELSE pa[c]]

\* Image.fromarray(np.where(mask[:, :, np.newaxis].astype(bool), arr_b, arr_a))
WhereImage(mask, b, a) ==
  [w |-> a.w, h |-> a.h,
   px |-> [p \in Coords(a.w, a.h) |->
             WherePixel(mask[p[2] + 1][p[1] + 1] = 1, b.px[p], a.px[p])]]

(***************************************************************************)
(* Input tiles.  A coded tile carries its own coordinates and a tag in     *)
(* every pixel, so a result pixel tells which tile and which cell it was   *)
(* taken from; a solid tile has one colour.                                *)
(***************************************************************************)
CodedTile(w, h, tag) ==
  [w |-> w, h |-> h, px |-> [p \in Coords(w, h) |-> <<p[1], p[2], tag, 255>>]]

SolidTile(w, h, color) == ImageNew(w, h, color)

Grass == <<34, 139, 34, 255>>

Water == <<30, 90, 200, 255>>

(***************************************************************************)
(* create_bayer_mask                                                       *)
(*                                                                         *)
(* A gradient value is a record [n, d, sq, up]: the real n/d when sq is    *)
(* FALSE and sqrt(n/d) when sq is TRUE.  up marks the cells whose float64  *)
(* quotient is one unit in the last place above that real.                 *)
(***************************************************************************)
Directions ==
  {"top", "bottom", "left", "right", "diagonal",
   "corner_tl", "corner_tr", "corner_bl", "corner_br", "radial"}

\* direction.startswith("corner_")
StartsWithCorner(direction) ==
  direction \in {"corner_tl", "corner_tr", "corner_bl", "corner_br"}

\* "t" in direction.split("_")[1]
CornerHasT(direction) == direction \in {"corner_tl", "corner_tr"}

\* "l" in direction.split("_")[1]
CornerHasL(direction) == direction \in {"corner_tl", "corner_bl"}

RECURSIVE Repeat(_, _)
\* the concatenation of reps copies of the sequence s
Repeat(s, reps) == IF reps <= 0 THEN <<>> ELSE s \o Repeat(s, reps - 1)

\* the matrix stretched: every cell repeated hreps times in its row and
\* every row vreps times
np_tile_stretched(matrix, vreps, hreps) ==
  [r \in 1 .. Len(matrix) * vreps |->
     [c \in 1 .. Len(matrix[1]) * hreps |->
        matrix[((r - 1) \div vreps) + 1][((c - 1) \div hreps) + 1]]]

\* np.tile(matrix, (vreps, hreps))
np_tile(matrix, vreps, hreps) ==
  Repeat([r \in DOMAIN matrix |-> Repeat(matrix[r], hreps)], vreps)

\* array[:height, :width]
Slice2D(array, height, width) ==
  [r \in 1 .. Min(height, Len(array)) |->
     SubSeq(array[r], 1, Min(width, Len(array[r])))]

\* matrices.get(matrix_size, BAYER_4X4)
Matrices(matrix_size) ==
  CASE matrix_size = 2 -> BAYER_2X2
    [] matrix_size = 4 -> BAYER_4X4
    [] matrix_size = 8 -> BAYER_8X8
    [] OTHER -> BAYER_4X4

\* the tiled threshold matrix of create_bayer_mask (numerators over
\* BayerDiv of the chosen matrix)
Threshold(width, height, matrix_size) ==
  LET bayer == Matrices(matrix_size)
      bh == Len(bayer)
      bw == Len(bayer[1])
  IN Slice2D(np_tile(bayer, Ceil(height, bh), Ceil(width, bw)), height, width)

\* the ramp running from stop to start
np_linspace_reversed(start, stop, num, i) ==
  IF num = 1
  THEN [n |-> start, d |-> 1, sq |-> FALSE, up |-> FALSE]
  ELSE [n |-> stop * (num - 1) + i * (start - stop), d |-> num - 1,
        sq |-> FALSE, up |-> FALSE]

\* np.linspace(start, stop, num)[i] for start, stop in {0, 1}
np_linspace(start, stop, num, i) ==
  IF num = 1
  THEN [n |-> start, d |-> 1, sq |-> FALSE, up |-> FALSE]
  ELSE [n |-> start * (num - 1) + i * (stop - start), d |-> num - 1,
        sq |-> FALSE, up |-> FALSE]

\* float64: math.sqrt(dx**2 + dy**2) / math.sqrt(width**2 + height**2) is
\* 0.7500000000000001 where the real quotient is 0.75, for these cells; for
\* every other cell of a mask of at most 17 x 17 the comparison of the
\* float64 gradient with a threshold k/4, k/16 or k/64 is that of the reals
Float64Above(width, height, dx, dy) ==
  \/ width = 8 /\ height = 12 /\ dx = 6 /\ dy = 9
  \/ width = 12 /\ height = 8 /\ dx = 9 /\ dy = 6

Abs(a) == IF a < 0 THEN 0 - a ELSE a

\* gradient[y, x] of create_bayer_mask
Gradient(width, height, direction, x, y) ==
  CASE direction = "left" -> np_linspace(0, 1, width, x)
    [] direction = "right" -> np_linspace(1, 0, width, x)
    [] direction = "top" -> np_linspace(0, 1, height, y)
    [] direction = "bottom" -> np_linspace(1, 0, height, y)
    [] direction = "diagonal" ->
         [n |-> x + y, d |-> Max(width + height - 2, 1), sq |-> FALSE, up |-> FALSE]
    [] direction = "radial" ->
         \* cx = width / 2, cy = height / 2; numerator and denominator
         \* of the squared quotient, both multiplied by four
         [n |-> (2 * x - width) * (2 * x - width) + (2 * y - height) * (2 * y - height),
          d |-> width * width + height * height, sq |-> TRUE, up |-> FALSE]
    [] StartsWithCorner(direction) ->
         LET oy == IF CornerHasT(direction) THEN 0 ELSE height - 1
             ox == IF CornerHasL(direction) THEN 0 ELSE width - 1
         IN [n |-> (x - ox) * (x - ox) + (y - oy) * (y - oy),
             d |-> width * width + height * height, sq |-> TRUE,
             up |-> Float64Above(width, height, Abs(x - ox), Abs(y - oy))]
    [] OTHER -> [n |-> 0, d |-> 1, sq |-> FALSE, up |-> FALSE]

\* gradient > k / div
GradientGreater(g, k, div) ==
  IF g.sq
  THEN \/ g.n * div * div > k * k * g.d
       \/ g.up /\ g.n * div * div = k * k * g.d
  ELSE g.n * div > k * g.d

\* create_bayer_mask(width, height, direction, matrix_size)
create_bayer_mask(width, height, direction, matrix_size) ==
  LET div == BayerDiv(Matrices(matrix_size))
      threshold == Threshold(width, height, matrix_size)
  IN [r \in 1 .. height |->
        [c \in 1 .. width |->
           IF GradientGreater(Gradient(width, height, direction, c - 1, r - 1),
                              threshold[r][c], div)
           THEN 1 ELSE 0]]

(***************************************************************************)
(* dither_blend_tiles                                                      *)
(***************************************************************************)
dither_blend_tiles(tile_a, tile_b, direction, matrix_size) ==
  LET a == tile_a
      b == IF <<tile_a.w, tile_a.h>> # <<tile_b.w, tile_b.h>>
           THEN ResizeNearest(tile_b, tile_a.w, tile_a.h)
           ELSE tile_b
      mask == create_bayer_mask(a.w, a.h, direction, matrix_size)
  IN WhereImage(mask, b, a)

(***************************************************************************)
(* generate_autotile47_tile                                                *)
(***************************************************************************)
Transparent == <<0, 0, 0, 0>>

\* the source picked in a quadrant's last branch, with the reverse choice
QuadrantSrc_reversed(quadrant_center, center, bg) ==
  IF quadrant_center THEN bg ELSE center

\* src = center if <quadrant>_center else bg
QuadrantSrc(quadrant_center, center, bg) ==
  IF quadrant_center THEN center ELSE bg

\* piece = np.where(m, arr_b, arr_c) over the crops of one quadrant box
DitherPiece(center, bg, x0, y0, x1, y1, mask) ==
  WhereImage(mask, Crop(bg, x0, y0, x1, y1), Crop(center, x0, y0, x1, y1))

AutotileTopLeft_top(center, bg, bitmask, matrix_size) ==
  LET half_w == center.w \div 2
      half_h == center.h \div 2
      has_n == BitAnd(bitmask, 1)
      has_w == BitAnd(bitmask, 64)
      has_nw == BitAnd(bitmask, 128)
      tl_center == has_n /\ has_w /\ has_nw
      tl_src == QuadrantSrc(tl_center, center, bg)
      direction == IF has_n /\ ~has_w THEN "top"
                   ELSE IF has_w /\ ~has_n THEN "left"
                   ELSE "corner_tl"
  IN IF has_n /\ has_w /\ ~has_nw
     THEN DitherPiece(center, bg, 0, 0, half_w, half_h,
                      create_bayer_mask(half_w, half_h, "corner_tl", matrix_size))
     ELSE IF has_n \/ has_w
     THEN DitherPiece(center, bg, 0, 0, half_w, half_h,
            IF has_n /\ ~has_w
            THEN create_bayer_mask(half_w, half_h, "top", matrix_size)
            ELSE IF has_w /\ ~has_n
            THEN create_bayer_mask(half_w, half_h, "bottom", matrix_size)
            ELSE create_bayer_mask(half_w, half_h, direction, matrix_size))
     ELSE Crop(tl_src, 0, 0, half_w, half_h)

\* the piece pasted at (0, 0)
AutotileTopLeft(center, bg, bitmask, matrix_size) ==
  LET half_w == center.w \div 2
      half_h == center.h \div 2
      has_n == BitAnd(bitmask, 1)
      has_w == BitAnd(bitmask, 64)
      has_nw == BitAnd(bitmask, 128)
      tl_center == has_n /\ has_w /\ has_nw
      tl_src == QuadrantSrc(tl_center, center, bg)
      direction == IF has_n /\ ~has_w THEN "top"
                   ELSE IF has_w /\ ~has_n THEN "left"
                   ELSE "corner_tl"
  IN IF has_n /\ has_w /\ ~has_nw
     THEN DitherPiece(center, bg, 0, 0, half_w, half_h,
                      create_bayer_mask(half_w, half_h, "corner_tl", matrix_size))
     ELSE IF has_n \/ has_w
     THEN DitherPiece(center, bg, 0, 0, half_w, half_h,
            IF has_n /\ ~has_w
            THEN create_bayer_mask(half_w, half_h, "right", matrix_size)
            ELSE IF has_w /\ ~has_n
            THEN create_bayer_mask(half_w, half_h, "bottom", matrix_size)
            ELSE create_bayer_mask(half_w, half_h, direction, matrix_size))
     ELSE Crop(tl_src, 0, 0, half_w, half_h)

\* the piece pasted at (half_w, 0)
AutotileTopRight(center, bg, bitmask, matrix_size) ==
  LET w == center.w
      half_w == center.w \div 2
      half_h == center.h \div 2
      has_n == BitAnd(bitmask, 1)
      has_ne == BitAnd(bitmask, 2)
      has_e == BitAnd(bitmask, 4)
      tr_center == has_n /\ has_e /\ has_ne
  IN IF has_n /\ has_e /\ ~has_ne
     THEN DitherPiece(center, bg, half_w, 0, w, half_h,
                      create_bayer_mask(w - half_w, half_h, "corner_tr", matrix_size))
     ELSE IF has_n \/ has_e
     THEN DitherPiece(center, bg, half_w, 0, w, half_h,
            IF has_n /\ ~has_e
            THEN create_bayer_mask(w - half_w, half_h, "left", matrix_size)
            ELSE IF has_e /\ ~has_n
            THEN create_bayer_mask(w - half_w, half_h, "bottom", matrix_size)
            ELSE create_bayer_mask(w - half_w, half_h, "corner_tr", matrix_size))
     ELSE Crop(QuadrantSrc(tr_center, center, bg), half_w, 0, w, half_h)

\* the piece pasted at (0, half_h)
AutotileBottomLeft(center, bg, bitmask, matrix_size) ==
  LET h == center.h
      half_w == center.w \div 2
      half_h == center.h \div 2
      has_s == BitAnd(bitmask, 16)
      has_sw == BitAnd(bitmask, 32)
      has_w == BitAnd(bitmask, 64)
      bl_center == has_s /\ has_w /\ has_sw
  IN IF has_s /\ has_w /\ ~has_sw
     THEN DitherPiece(center, bg, 0, half_h, half_w, h,
                      create_bayer_mask(half_w, h - half_h, "corner_bl", matrix_size))
     ELSE IF has_s \/ has_w
     THEN DitherPiece(center, bg, 0, half_h, half_w, h,
            IF has_s /\ ~has_w
            THEN create_bayer_mask(half_w, h - half_h, "right", matrix_size)
            ELSE IF has_w /\ ~has_s
            THEN create_bayer_mask(half_w, h - half_h, "top", matrix_size)
            ELSE create_bayer_mask(half_w, h - half_h, "corner_bl", matrix_size))
     ELSE Crop(QuadrantSrc(bl_center, center, bg), 0, half_h, half_w, h)

\* the piece pasted at (half_w, half_h)
AutotileBottomRight(center, bg, bitmask, matrix_size) ==
  LET w == center.w
      h == center.h
      half_w == center.w \div 2
      half_h == center.h \div 2
      has_e == BitAnd(bitmask, 4)
      has_se == BitAnd(bitmask, 8)
      has_s == BitAnd(bitmask, 16)
      br_center == has_s /\ has_e /\ has_se
  IN IF has_s /\ has_e /\ ~has_se
     THEN DitherPiece(center, bg, half_w, half_h, w, h,
                      create_bayer_mask(w - half_w, h - half_h, "corner_br", matrix_size))
     ELSE IF has_s \/ has_e
     THEN DitherPiece(center, bg, half_w, half_h, w, h,
            IF has_s /\ ~has_e
            THEN create_bayer_mask(w - half_w, h - half_h, "left", matrix_size)
            ELSE IF has_e /\ ~has_s
            THEN create_bayer_mask(w - half_w, h - half_h, "top", matrix_size)
            ELSE create_bayer_mask(w - half_w, h - half_h, "corner_br", matrix_size))
     ELSE Crop(QuadrantSrc(br_center, center, bg), half_w, half_h, w, h)

\* bg after `if bg.size != center.size: bg = bg.resize(center.size, NEAREST)`
AutotileBg(center_tile, bg_tile) ==
  IF <<bg_tile.w, bg_tile.h>> # <<center_tile.w, center_tile.h>>
  THEN ResizeNearest(bg_tile, center_tile.w, center_tile.h)
  ELSE bg_tile

generate_autotile47_tile(center_tile, bg_tile, bitmask, matrix_size) ==
  LET center == center_tile
      bg == AutotileBg(center_tile, bg_tile)
      w == center.w
      h == center.h
      half_w == w \div 2
      half_h == h \div 2
      r0 == ImageNew(w, h, Transparent)
      r1 == Paste(r0, AutotileTopLeft(center, bg, bitmask, matrix_size), 0, 0)
      r2 == Paste(r1, AutotileTopRight(center, bg, bitmask, matrix_size), half_w, 0)
      r3 == Paste(r2, AutotileBottomLeft(center, bg, bitmask, matrix_size), 0, half_h)
  IN Paste(r3, AutotileBottomRight(center, bg, bitmask, matrix_size), half_w, half_h)

(***************************************************************************)
(* generate_autotile47_set                                                 *)
(***************************************************************************)
\* the table left in insertion order
SortedItems_unsorted(items) == items

RECURSIVE SortedItems(_)
\* sorted(items) for a sequence of (bitmask, name) pairs with distinct
\* bitmasks: ascending by bitmask
SortedItems(items) ==
  IF items = <<>> THEN <<>>
  ELSE LET i == CHOOSE j \in DOMAIN items :
                  \A k \in DOMAIN items : items[j][1] <= items[k][1]
       IN <<items[i]>>
          \o SortedItems(SubSeq(items, 1, i - 1) \o SubSeq(items, i + 1, Len(items)))

\* outputs[name] = path, the path naming the tile written to it
DictSet(dict, key, value) ==
  [k \in DOMAIN dict \cup {key} |-> IF k = key THEN value ELSE dict[k]]

RECURSIVE GenerateTiles(_, _, _, _, _, _)
\* the first loop: one tile per table entry not generated before, saved
\* under a file name made of its name and bitmask.  The state of the loop
\* is [outputs, generated_bitmasks, saved], saved the files in the order
\* they are written.
GenerateTiles(items, i, center_tile, bg_tile, matrix_size, st) ==
  IF i > Len(items) THEN st
  ELSE LET bitmask == items[i][1]
           name == items[i][2]
       IN IF bitmask \in st.generated_bitmasks
          THEN GenerateTiles(items, i + 1, center_tile, bg_tile, matrix_size, st)
          ELSE LET tile == generate_autotile47_tile(center_tile, bg_tile, bitmask, matrix_size)
                   file == [name |-> name, bitmask |-> bitmask, tile |-> tile]
               IN GenerateTiles(items, i + 1, center_tile, bg_tile, matrix_size,
                    [outputs |-> DictSet(st.outputs, name, file),
                     generated_bitmasks |-> st.generated_bitmasks \cup {bitmask},
                     saved |-> Append(st.saved, file)])

RECURSIVE PasteSheet(_, _, _, _, _, _, _)
\* the second loop: tile i of sorted_masks (0-based position i - 1) pasted
\* at column (i - 1) % cols, row (i - 1) // cols
PasteSheet(sheet, sorted_masks, i, cols, center_tile, bg_tile, matrix_size) ==
  IF i > Len(sorted_masks) THEN sheet
  ELSE LET col == (i - 1) % cols
           row == (i - 1) \div cols
           tile == generate_autotile47_tile(center_tile, bg_tile, sorted_masks[i], matrix_size)
       IN PasteSheet(Paste(sheet, tile, col * center_tile.w, row * center_tile.h),
                     sorted_masks, i + 1, cols, center_tile, bg_tile, matrix_size)

\* the sheet's column count
SheetCols == 8

\* the row count rounded down, dropping the last, partly filled row
SheetRows_floor(n_tiles, cols) == n_tiles \div cols

\* rows = math.ceil(n_tiles / cols)
SheetRows(n_tiles, cols) == Ceil(n_tiles, cols)

\* the files of generate_autotile47_set: outputs (name -> tile file, plus
\* the "_sheet" and "_mapping" keys), the sheet image and the mapping.
\* bitmaskMap is keyed by the bitmask itself; the source keys it by str(k),
\* the decimal numeral, which is different for different bitmasks.
generate_autotile47_set(center_tile, bg_tile, matrix_size) ==
  LET w == center_tile.w
      h == center_tile.h
      items == SortedItems(BLOB47_CATEGORIES)
      loop == GenerateTiles(items, 1, center_tile, bg_tile, matrix_size,
                [outputs |-> <<>>, generated_bitmasks |-> {}, saved |-> <<>>])
      sorted_masks == [i \in DOMAIN items |-> items[i][1]]
      n_tiles == Len(sorted_masks)
      cols == SheetCols
      rows == SheetRows(n_tiles, cols)
      sheet == PasteSheet(ImageNew(cols * w, rows * h, Transparent), sorted_masks, 1,
                          cols, center_tile, bg_tile, matrix_size)
      mapping == [tileSize |-> w, cols |-> cols, rows |-> rows, totalTiles |-> n_tiles,
                  bitmaskMap |-> [k \in {items[i][1] : i \in DOMAIN items} |->
                     LET i == CHOOSE j \in DOMAIN items : items[j][1] = k
                     IN [name |-> items[i][2], index |-> i - 1]]]
  IN [outputs |-> DictSet(DictSet(loop.outputs, "_sheet", "sheet"), "_mapping", "mapping"),
      saved |-> loop.saved,
      sheet |-> sheet,
      mapping |-> mapping]

(***************************************************************************)
(* _scale2x_vectorized                                                     *)
(***************************************************************************)
\* the padding that wraps around: the cell beyond an edge is the cell at
\* the opposite edge
PadEdge_wrap(img) ==
  [w |-> img.w + 2, h |-> img.h + 2,
   px |-> [p \in Coords(img.w + 2, img.h + 2) |->
             img.px[<<(p[1] - 1 + img.w) % img.w, (p[2] - 1 + img.h) % img.h>>]]]

\* np.pad(arr, ((1, 1), (1, 1), (0, 0)), mode="edge"): one ring of cells
\* around the array, each a copy of the nearest cell of the array
PadEdge(img) ==
  [w |-> img.w + 2, h |-> img.h + 2,
   px |-> [p \in Coords(img.w + 2, img.h + 2) |->
             img.px[<<Min(Max(p[1] - 1, 0), img.w - 1),
                      Min(Max(p[2] - 1, 0), img.h - 1)>>]]]

\* eq(x, y) = np.all(x == y, axis=-1) on one cell
PixelEq(x, y) == \A c \in 1 .. 4 : x[c] = y[c]

\* neq(x, y) = ~np.all(x == y, axis=-1) on one cell
PixelNeq(x, y) == ~(\A c \in 1 .. 4 : x[c] = y[c])

\* the four neighbours <<A, B, C, D>> of source cell (x, y)
Scale2xNeighbors(padded, x, y) ==
  <<padded.px[<<x + 1, y>>],        \* A = padded[:-2, 1:-1], top
    padded.px[<<x + 2, y + 1>>],    \* B = padded[1:-1, 2:], right
    padded.px[<<x, y + 1>>],        \* C = padded[1:-1, :-2], left
    padded.px[<<x + 1, y + 2>>]>>   \* D = padded[2:, 1:-1], bottom

Scale2xRules_equalities(A, B, C, D) ==
  <<PixelEq(C, A), PixelEq(A, B), PixelEq(D, C), PixelEq(B, D)>>

\* the conditions of the four np.where calls, for P0, P1, P2 and P3
Scale2xRules(A, B, C, D) ==
  LET ca == PixelEq(C, A)
      cd == PixelNeq(C, D)
      ab == PixelNeq(A, B)
      ab_eq == PixelEq(A, B)
      ac == PixelNeq(A, C)
      bd == PixelNeq(B, D)
      dc == PixelEq(D, C)
      db == PixelNeq(D, B)
      ca_neq == PixelNeq(C, A)
      bd_eq == PixelEq(B, D)
      ba == PixelNeq(B, A)
      dc_neq == PixelNeq(D, C)
  IN <<ca /\ cd /\ ab,
       ab_eq /\ ac /\ bd,
       dc /\ db /\ ca_neq,
       bd_eq /\ ba /\ dc_neq>>

\* the four output pixels <<P0, P1, P2, P3>> of source cell (x, y)
Scale2xCell(arr, padded, x, y) ==
  LET P == arr.px[<<x, y>>]
      nb == Scale2xNeighbors(padded, x, y)
      A == nb[1]
      B == nb[2]
      C == nb[3]
      D == nb[4]
      rules == Scale2xRules(A, B, C, D)
  IN <<WherePixel(rules[1], C, P),
       WherePixel(rules[2], A, P),
       WherePixel(rules[3], D, P),
       WherePixel(rules[4], B, P)>>

_scale2x_vectorized(tile) ==
  LET arr == tile
      h == arr.h
      w == arr.w
      padded == PadEdge(arr)
  IN [w |-> w * 2, h |-> h * 2,
      px |-> [p \in Coords(w * 2, h * 2) |->
                \* result[0::2, 0::2] = P0, [0::2, 1::2] = P1,
                \* [1::2, 0::2] = P2, [1::2, 1::2] = P3
                Scale2xCell(arr, padded, p[1] \div 2, p[2] \div 2)
                  [1 + (p[1] % 2) + 2 * (p[2] % 2)]]]

(***************************************************************************)
(* _scale3x_vectorized and resize_tile.                                    *)
(***************************************************************************)

\* the nine output pixels <<P1, ..., P9>> of source cell (x, y)
Scale3xCell(arr, padded, x, y) ==
  LET A == padded.px[<<x, y>>]            \* padded[:-2, :-2], top-left
      B == padded.px[<<x + 1, y>>]        \* padded[:-2, 1:-1], top
      C == padded.px[<<x + 2, y>>]        \* padded[:-2, 2:], top-right
      D == padded.px[<<x, y + 1>>]        \* padded[1:-1, :-2], left
      E == arr.px[<<x, y>>]               \* center
      F == padded.px[<<x + 2, y + 1>>]    \* padded[1:-1, 2:], right
      G == padded.px[<<x, y + 2>>]        \* padded[2:, :-2], bottom-left
      H == padded.px[<<x + 1, y + 2>>]    \* padded[2:, 1:-1], bottom
      I == padded.px[<<x + 2, y + 2>>]    \* padded[2:, 2:], bottom-right
      db == PixelEq(D, B)
      dh == PixelNeq(D, H)
      bf == PixelNeq(B, F)
      bf_eq == PixelEq(B, F)
      fh == PixelEq(F, H)
      dh_eq == PixelEq(D, H)
      cond_p2 == \/ db /\ dh /\ bf /\ PixelNeq(E, C)
                 \/ bf_eq /\ PixelNeq(B, D) /\ PixelNeq(F, H) /\ PixelNeq(E, A)
      cond_p4 == \/ db /\ dh /\ bf /\ PixelNeq(E, G)
                 \/ dh_eq /\ PixelNeq(D, B) /\ PixelNeq(H, F) /\ PixelNeq(E, A)
      cond_p6 == \/ bf_eq /\ PixelNeq(B, D) /\ PixelNeq(F, H) /\ PixelNeq(E, I)
                 \/ fh /\ PixelNeq(F, B) /\ PixelNeq(H, D) /\ PixelNeq(E, C)
      cond_p8 == \/ dh_eq /\ PixelNeq(D, B) /\ PixelNeq(H, F) /\ PixelNeq(E, I)
                 \/ fh /\ PixelNeq(F, B) /\ PixelNeq(H, D) /\ PixelNeq(E, G)
  IN << IF db /\ dh /\ bf THEN D ELSE E,
        IF cond_p2 THEN B ELSE E,
        IF bf_eq /\ PixelNeq(B, D) /\ PixelNeq(F, H) THEN F ELSE E,
        IF cond_p4 THEN D ELSE E,
        E,
        IF cond_p6 THEN F ELSE E,
        IF dh_eq /\ PixelNeq(D, B) /\ PixelNeq(H, F) THEN D ELSE E,
        IF cond_p8 THEN H ELSE E,
        IF fh /\ PixelNeq(F, B) /\ PixelNeq(H, D) THEN F ELSE E >>

_scale3x_vectorized(tile) ==
  LET arr == tile
      h == arr.h
      w == arr.w
      padded == PadEdge(arr)
  IN [w |-> w * 3, h |-> h * 3,
      px |-> [p \in Coords(w * 3, h * 3) |->
                \* result[r::3, c::3] = P(3r + c + 1)
                Scale3xCell(arr, padded, p[1] \div 3, p[2] \div 3)
                  [1 + (p[1] % 3) + 3 * (p[2] % 3)]]]

Scale2xContinue_strict(current_size, to_size) == current_size * 2 < to_size

\* while current_size * 2 <= to_size
Scale2xContinue(current_size, to_size) == current_size * 2 <= to_size

\* the scale2x branch from its loop on: scaled and current_size are the
\* loop's variables
RECURSIVE Scale2xLoop(_, _, _)
Scale2xLoop(scaled, current_size, to_size) ==
  IF Scale2xContinue(current_size, to_size)
    THEN Scale2xLoop(_scale2x_vectorized(scaled), current_size * 2, to_size)
    ELSE IF current_size # to_size
           THEN ResizeNearest(scaled, to_size, to_size)
           ELSE scaled

resize_tile(tile, to_size, method) ==
  LET w == tile.w
  IN CASE method = "nearest" -> ResizeNearest(tile, to_size, to_size)
       [] method = "scale2x" -> Scale2xLoop(tile, w, to_size)
       [] method = "scale3x" ->
            LET scaled == _scale3x_vectorized(tile)
                current_size == w * 3
            IN IF current_size # to_size
                 THEN ResizeNearest(scaled, to_size, to_size)
                 ELSE scaled
       [] method = "hqx" ->
            LET scaled == _scale2x_vectorized(tile)
            IN IF w * 2 # to_size
                 THEN ResizeNearest(scaled, to_size, to_size)
                 ELSE scaled
       [] OTHER -> ResizeNearest(tile, to_size, to_size)

(***************************************************************************)
(* extract_palette.                                                        *)
(***************************************************************************)

\* (x >> 3) << 3 on each channel of a colour <<r, g, b>>
Quantize(c) == [k \in 1 .. 3 |-> (c[k] \div 8) * 8]

\* arr[opaque_mask][:, :3]: the colours of the pixels whose alpha is at least
\* min_alpha, as a set
OpaquePixels(tile, min_alpha) ==
  {SubSeq(tile.px[p], 1, 3) :
     p \in {q \in Coords(tile.w, tile.h) : tile.px[q][4] >= min_alpha}}

\* 0.299 R + 0.587 G + 0.114 B in thousandths
Luminance(c) == 299 * c[1] + 587 * c[2] + 114 * c[3]

\* float64: pairs of colours of equal luminance whose computed luminances
\* differ, the first being the smaller (64.01599999999999 and 64.016)
LuminanceRoundedBelow == {<<(<<0, 64, 232>>), (<<208, 0, 16>>)>>}

LuminanceLess(a, b) ==
  \/ Luminance(a) < Luminance(b)
  \/ <<a, b>> \in LuminanceRoundedBelow

\* unique_colors[np.argsort(luminances)]: the orders of the set of colours in
\* which computed luminance never decreases.  The sort is not a stable one,
\* so colours of equal computed luminance come in any order.
RECURSIVE ArgsortByLuminance(_)
ArgsortByLuminance(colors) ==
  IF colors = {} THEN {<<>>}
  ELSE UNION {{<<m>> \o rest : rest \in ArgsortByLuminance(colors \ {m})} :
                m \in {c \in colors :
                         \A d \in colors : ~LuminanceLess(d, c)}}

LinspaceInt_first(stop, num, i) == i

\* np.linspace(0, stop, num, dtype=int)[i]: the i-th of num evenly spaced
\* values from 0 to stop, truncated (i from 0)
LinspaceInt(stop, num, i) ==
  IF num = 1 THEN 0
  ELSE IF i = num - 1 THEN stop
  ELSE (i * stop) \div (num - 1)

\* the function from its sorted colours on (indices of sequences from 1)
LimitColors(sorted_colors, max_colors) ==
  IF Len(sorted_colors) > max_colors
    THEN [i \in 1 .. max_colors |->
            sorted_colors[1 + LinspaceInt(Len(sorted_colors) - 1,
                                          max_colors, i - 1)]]
    ELSE sorted_colors

\* the values of sorted_colors before the limit that a call can compute
SortedColors(tile, min_alpha) ==
  ArgsortByLuminance({Quantize(c) : c \in OpaquePixels(tile, min_alpha)})

\* the lists a call can return
extract_palette(tile, max_colors, min_alpha) ==
  IF OpaquePixels(tile, min_alpha) = {} THEN {<<>>}
  ELSE {LimitColors(sorted_colors, max_colors) :
          sorted_colors \in SortedColors(tile, min_alpha)}

(***************************************************************************)
(* palette_swap.                                                           *)
(***************************************************************************)

PaletteSizeMismatch_source_longer(source_palette, target_palette) ==
  Len(source_palette) > Len(target_palette)

\* if len(source_palette) != len(target_palette): raise ValueError
PaletteSizeMismatch(source_palette, target_palette) ==
  Len(source_palette) # Len(target_palette)

ManhattanDiff_red_green(rgb, entry) ==
  Abs(rgb[1] - entry[1]) + Abs(rgb[2] - entry[2])

\* np.abs(rgb - src_arr[i]).sum(axis=-1) for one pixel, in int16
ManhattanDiff(rgb, entry) ==
  Abs(rgb[1] - entry[1]) + Abs(rgb[2] - entry[2]) + Abs(rgb[3] - entry[3])

SwapMatchInput_current(rgb, current) == current

\* the colour a pixel is matched by: rgb is taken from arr once, before the
\* loop, and the loop writes arr only
SwapMatchInput(rgb, current) == rgb

\* iterations i .. len(source_palette) of the loop on one pixel: current is
\* the pixel's colour in arr, rgb and alpha those of the input
RECURSIVE SwapLoop(_, _, _, _, _, _, _)
SwapLoop(current, rgb, alpha, src_arr, tgt_arr, tolerance, i) ==
  IF i > Len(src_arr) THEN current
  ELSE LET diff == ManhattanDiff(SwapMatchInput(rgb, current), src_arr[i])
           mask == diff <= tolerance /\ alpha >= 50
       IN SwapLoop(IF mask THEN tgt_arr[i] ELSE current,
                   rgb, alpha, src_arr, tgt_arr, tolerance, i + 1)

CallersTile_aliased(tile, arr) == arr

\* the caller's tile once arr has been written: arr is np.array(tile).copy(),
\* a buffer of its own, and the loop writes arr only
CallersTile(tile, arr) == tile

\* raised is the exception raised, image the returned image, and tile the
\* caller's tile after the call
palette_swap(tile, source_palette, target_palette, tolerance) ==
  IF PaletteSizeMismatch(source_palette, target_palette)
    THEN [raised |-> "ValueError", image |-> <<>>, tile |-> tile]
    ELSE LET arr == [w |-> tile.w, h |-> tile.h,
                     px |-> [p \in Coords(tile.w, tile.h) |->
                               LET rgb == SubSeq(tile.px[p], 1, 3)
                                   alpha == tile.px[p][4]
                               IN Append(SwapLoop(rgb, rgb, alpha,
                                                  source_palette,
                                                  target_palette,
                                                  tolerance, 1),
                                         alpha)]]
         IN [raised |-> "none", image |-> arr,
             tile |-> CallersTile(tile, arr)]

(***************************************************************************)
(* The crop sites: _extract_tile of extract_tileset.py and get_tile of     *)
(* pipeline_generate in asset_pipeline.py.                                  *)
(***************************************************************************)

\* image.crop((x0, y0, x1, y1)) for any box: the cells of the box outside
\* the image are transparent black
CropPadded(img, x0, y0, x1, y1) ==
  [w |-> x1 - x0, h |-> y1 - y0,
   px |-> [p \in Coords(x1 - x0, y1 - y0) |->
             IF p[1] + x0 < img.w /\ p[2] + y0 < img.h
               THEN img.px[<<p[1] + x0, p[2] + y0>>]
               ELSE <<0, 0, 0, 0>>]]

_extract_tile(pack_img, tile_size, spacing, col, row) ==
  LET x == col * (tile_size + spacing)
      y == row * (tile_size + spacing)
  IN IF x + tile_size > pack_img.w \/ y + tile_size > pack_img.h
       THEN [raised |-> "CurationError", image |-> <<>>]
       ELSE [raised |-> "none",
             image |-> CropPadded(pack_img, x, y, x + tile_size, y + tile_size)]

\* the closure of pipeline_generate; img, step and tile_size are the
\* variables it captures
get_tile(img, step, tile_size, col, row) ==
  LET x == col * step
      y == row * step
  IN [raised |-> "none",
      image |-> CropPadded(img, x, y, x + tile_size, y + tile_size)]

\* get_tile(*pos) if pos else get_tile(col, row)
GetTileAt(img, step, tile_size, pos, col, row) ==
  IF pos # <<>> THEN get_tile(img, step, tile_size, pos[1], pos[2])
  ELSE get_tile(img, step, tile_size, col, row)

(***************************************************************************)
(* extract_tilemap_palette and compare_palettes.  Luminances are in         *)
(* thousandths; a mean is a pair of numerator n and denominator d.  Of the  *)
(* extracted record, path, colors and luminanceStd are left out:            *)
(* compare_palettes reads none of them.                                     *)
(***************************************************************************)

\* arr[opaque_mask][:, :3]: the colours of the pixels of alpha >= 50 in
\* row-major order, from pixel k on
RECURSIVE OpaqueRgb(_, _)
OpaqueRgb(img, k) ==
  IF k >= img.w * img.h THEN <<>>
  ELSE LET pixel == img.px[<<k % img.w, k \div img.w>>]
       IN (IF pixel[4] >= 50 THEN <<SubSeq(pixel, 1, 3)>> ELSE <<>>)
            \o OpaqueRgb(img, k + 1)

RECURSIVE SumLuminance(_, _)
SumLuminance(rgbs, i) ==
  IF i > Len(rgbs) THEN 0 ELSE Luminance(rgbs[i]) + SumLuminance(rgbs, i + 1)

\* s > 0.1 and v > 0.1 of rgb_to_hsv(r / 255, g / 255, b / 255)
Chromatic(c) ==
  LET maxc == Max(c[1], Max(c[2], c[3]))
      minc == Min(c[1], Min(c[2], c[3]))
  IN 10 * (maxc - minc) > maxc /\ 10 * maxc > 255

\* int(h_val * 12) % 12 for a chromatic colour.  float64: a hue exactly on
\* the border of two bins can be computed into the lower one; no colour of
\* the inputs has such a hue.
HueBin(c) ==
  LET maxc == Max(c[1], Max(c[2], c[3]))
      minc == Min(c[1], Min(c[2], c[3]))
      rangec == maxc - minc
      h == IF c[1] = maxc THEN 2 * (c[2] - c[3])
           ELSE IF c[2] = maxc THEN 4 * rangec + 2 * (c[3] - c[1])
           ELSE 8 * rangec + 2 * (c[1] - c[2])
  IN (h % (12 * rangec)) \div rangec

\* opaque_rgb[::10]
HueSampleStep == 10

\* hue_bins (bins from 1) before the division by their sum: the chromatic
\* ones of every HueSampleStep-th opaque pixel, counted by bin
HueCounts(rgbs) ==
  [bin \in 1 .. 12 |->
     Cardinality({i \in 1 .. Len(rgbs) :
                    /\ (i - 1) % HueSampleStep = 0
                    /\ Chromatic(rgbs[i])
                    /\ HueBin(rgbs[i]) + 1 = bin})]

RECURSIVE SumSeq(_, _)
SumSeq(seq, i) == IF i > Len(seq) THEN 0 ELSE seq[i] + SumSeq(seq, i + 1)

\* hueDistribution is counts[bin] / total, and counts when total = 0
extract_tilemap_palette(img) ==
  LET opaque_rgb == OpaqueRgb(img, 0)
      lums == {Luminance(opaque_rgb[i]) : i \in 1 .. Len(opaque_rgb)}
      hue_bins == HueCounts(opaque_rgb)
  IN IF Len(opaque_rgb) = 0 THEN [stats |-> <<>>]
     ELSE [stats |->
             [totalOpaquePixels |-> Len(opaque_rgb),
              uniqueColors |->
                Cardinality({Quantize(opaque_rgb[i]) :
                               i \in 1 .. Len(opaque_rgb)}),
              luminanceMean |-> [n |-> SumLuminance(opaque_rgb, 1),
                                 d |-> Len(opaque_rgb)],
              luminanceMin |-> CHOOSE l \in lums : \A m \in lums : l <= m,
              luminanceMax |-> CHOOSE l \in lums : \A m \in lums : l >= m,
              hueDistribution |-> [counts |-> hue_bins,
                                   total |-> SumSeq(hue_bins, 1)]]]

\* abs(a - b) > limit for two means, limit in thousandths
MeanDiffGreater(a, b, limit) ==
  Abs(a.n * b.d - b.n * a.d) > limit * a.d * b.d

\* round(abs(a - b), 1) for two means, in tenths.  float64: a difference
\* midway between two tenths is rounded as its computed value falls; no two
\* inputs have such a difference.
MeanDiffRounded(a, b) ==
  (2 * Abs(a.n * b.d - b.n * a.d) + 100 * a.d * b.d) \div (200 * a.d * b.d)

\* round(x, 1) for x in thousandths, in tenths
RoundTenths(x) == (x + 50) \div 100

\* np.dot of two sequences of twelve counts
RECURSIVE Dot(_, _, _)
Dot(u, v, i) == IF i > 12 THEN 0 ELSE u[i] * v[i] + Dot(u, v, i + 1)

\* float64: the cosine of two distributions of one half in each of two bins,
\* one bin shared, is computed as 0.4999999999999999, below the limit that
\* it equals; <<total, squares>> of both, their product and the limit
CosineRoundedBelow == {<<2, 2, 2, 2, 1, 50>>}

\* cosine_sim < limit / 100 where norm > 0
CosineLess(hue_a, hue_b, limit) ==
  LET dot == Dot(hue_a.counts, hue_b.counts, 1)
      sq_a == Dot(hue_a.counts, hue_a.counts, 1)
      sq_b == Dot(hue_b.counts, hue_b.counts, 1)
  IN \/ 10000 * dot * dot < limit * limit * sq_a * sq_b
     \/ <<hue_a.total, sq_a, hue_b.total, sq_b, dot, limit>>
          \in CosineRoundedBelow

HuePenalty_flat(hue_a, hue_b) ==
  LET norm_positive == hue_a.total > 0 /\ hue_b.total > 0
  IN IF ~norm_positive \/ CosineLess(hue_a, hue_b, 70)
       THEN [score |-> 15,
             issues |-> <<"Somewhat different hue distributions">>]
     ELSE [score |-> 0, issues |-> <<>>]

\* the penalty for the hue distributions and its issue: cosine_sim is 0
\* when norm is not above 0, that is when a distribution is all zero
HuePenalty(hue_a, hue_b) ==
  LET norm_positive == hue_a.total > 0 /\ hue_b.total > 0
  IN IF ~norm_positive \/ CosineLess(hue_a, hue_b, 50)
       THEN [score |-> 30, issues |-> <<"Very different hue distributions">>]
     ELSE IF CosineLess(hue_a, hue_b, 70)
       THEN [score |-> 15,
             issues |-> <<"Somewhat different hue distributions">>]
     ELSE [score |-> 0, issues |-> <<>>]

\* issues hold the texts without their numbers
compare_palettes(palette_a, palette_b) ==
  LET stats_a == palette_a.stats
      stats_b == palette_b.stats
  IN IF stats_a = <<>> \/ stats_b = <<>>
       THEN [score |-> 0, issues |-> <<"Missing palette data">>]
     ELSE
       LET mean_a == stats_a.luminanceMean
           mean_b == stats_b.luminanceMean
           lum == IF MeanDiffGreater(mean_a, mean_b, 40000)
                    THEN [score |-> 25,
                          issues |-> <<"Large luminance difference">>]
                  ELSE IF MeanDiffGreater(mean_a, mean_b, 20000)
                    THEN [score |-> 10,
                          issues |-> <<"Moderate luminance difference">>]
                  ELSE [score |-> 0, issues |-> <<>>]
           range_a == stats_a.luminanceMax - stats_a.luminanceMin
           range_b == stats_b.luminanceMax - stats_b.luminanceMin
           range_diff == Abs(range_a - range_b)
           contrast == IF range_diff > 60000
                         THEN [score |-> 15,
                               issues |-> <<"Contrast range mismatch">>]
                       ELSE [score |-> 0, issues |-> <<>>]
           hue == HuePenalty(stats_a.hueDistribution, stats_b.hueDistribution)
           count_a == stats_a.uniqueColors
           count_b == stats_b.uniqueColors
           \* count_ratio < 0.3; the counts of non-empty stats are positive
           count == IF 10 * Min(count_a, count_b) < 3 * Max(count_a, count_b)
                      THEN [score |-> 15,
                            issues |-> <<"Large color count difference">>]
                    ELSE [score |-> 0, issues |-> <<>>]
           score == Max(0, 100 - lum.score - contrast.score - hue.score
                             - count.score)
       IN [score |-> score,
           compatible |-> score >= 60,
           issues |-> lum.issues \o contrast.issues \o hue.issues
                        \o count.issues,
           details |-> [luminanceDiff |-> MeanDiffRounded(mean_a, mean_b),
                        contrastRangeDiff |-> RoundTenths(range_diff),
                        colorCountA |-> count_a,
                        colorCountB |-> count_b]]

(***************************************************************************)
(* batch_resize_tilemap.                                                   *)
(***************************************************************************)

\* cols and rows: w // from_step if spacing > 0 else w // from_size
GridCount(side, from_size, spacing) ==
  IF spacing > 0 THEN side \div (from_size + spacing) ELSE side \div from_size

BatchScaled_oversized(img, from_size, to_size, spacing, method, col, row) ==
  LET from_step == from_size + spacing
      x == col * from_step
      y == row * from_step
  IN resize_tile(Crop(img, x, y, x + from_size, y + from_size),
                 to_size + 1, method)

\* the loop body up to the paste: the tile at (col, row), cropped and resized
BatchScaled(img, from_size, to_size, spacing, method, col, row) ==
  LET from_step == from_size + spacing
      x == col * from_step
      y == row * from_step
      tile == Crop(img, x, y, x + from_size, y + from_size)
  IN resize_tile(tile, to_size, method)

\* the loop body: output with the tile at (col, row) pasted
BatchPaste(output, img, from_size, to_size, spacing, method, col, row) ==
  Paste(output,
        BatchScaled(img, from_size, to_size, spacing, method, col, row),
        col * to_size, row * to_size)

\* the two loops from tile i on, i = row * cols + col
RECURSIVE BatchLoop(_, _, _, _, _, _, _, _, _)
BatchLoop(output, i, cols, rows, img, from_size, to_size, spacing, method) ==
  IF i >= cols * rows THEN output
  ELSE BatchLoop(BatchPaste(output, img, from_size, to_size, spacing, method,
                            i % cols, i \div cols),
                 i + 1, cols, rows, img, from_size, to_size, spacing, method)

\* the returned record with the saved image as output; the paths are left out
batch_resize_tilemap(img, from_size, to_size, spacing, method) ==
  LET cols == GridCount(img.w, from_size, spacing)
      rows == GridCount(img.h, from_size, spacing)
      output == ImageNew(cols * to_size, rows * to_size, <<0, 0, 0, 0>>)
  IN [output |-> BatchLoop(output, 0, cols, rows, img, from_size, to_size,
                           spacing, method),
      fromSize |-> from_size, toSize |-> to_size,
      cols |-> cols, rows |-> rows,
      totalTiles |-> cols * rows,
      method |-> method]

(***************************************************************************)
(* The fuzz hooks tests/schemathesis/hooks.py.                             *)
(*                                                                         *)
(* A Python str is the sequence of its code points, None is the sequence   *)
(* <<-1>>, which no str is.  A dict is a function from its keys.           *)
(* case.headers is a record [none, items] and case.body a record           *)
(* [kind, fields] with kind "none", "dict" or "list".                      *)
(***************************************************************************)
None == <<-1>>

\* "/register", "/reconnect" and "/channels"
_UNAUTHENTICATED_SUFFIXES ==
  { <<47, 99, 104, 97, 110, 110, 101, 108, 115>>,
    <<47, 114, 101, 103, 105, 115, 116, 101, 114>>,
    <<47, 114, 101, 99, 111, 110, 110, 101, 99, 116>> }

\* "/unregister"
_FAKE_TOKEN_SUFFIXES ==
  { <<47, 117, 110, 114, 101, 103, 105, 115, 116, 101, 114>> }

\* "tok_fuzz_test_invalid_do_not_use"
_FAKE_TOKEN ==
  <<116, 111, 107, 95, 102, 117, 122, 122, 95, 116, 101, 115, 116, 95,
    105, 110, 118, 97, 108, 105, 100, 95, 100, 111, 95, 110, 111, 116, 95,
    117, 115, 101>>

\* "Authorization"
Authorization ==
  <<65, 117, 116, 104, 111, 114, 105, 122, 97, 116, 105, 111, 110>>

\* f"Bearer {token}"
Bearer(token) == <<66, 101, 97, 114, 101, 114, 32>> \o token

_auth_headers(token) == [n \in {Authorization} |-> Bearer(token)]

\* str.endswith
EndsWith(path, suffix) ==
  /\ Len(path) >= Len(suffix)
  /\ SubSeq(path, Len(path) - Len(suffix) + 1, Len(path)) = suffix

_is_safe_header_value(value) ==
  \A i \in 1 .. Len(value) : value[i] >= 32 \/ value[i] = 9

\* the globals as a record
Globals ==
  [session_token |-> _session_token, agent_id |-> _agent_id,
   room_id |-> _room_id, skill_id |-> _skill_id, action_id |-> _action_id,
   meeting_id |-> _meeting_id]

\* step 1 of setup: the fields of the registration are stored one by one,
\* and the first missing one, like a failed request, ends setup
RegisterStored(g, register) ==
  IF ~register.ok \/ "sessionToken" \notin DOMAIN register.data THEN g
  ELSE LET g1 == [g EXCEPT !.session_token = register.data["sessionToken"]]
       IN IF "agentId" \notin DOMAIN register.data THEN g1
          ELSE LET g2 == [g1 EXCEPT !.agent_id = register.data["agentId"]]
               IN IF "roomId" \notin DOMAIN register.data THEN g2
                  ELSE [g2 EXCEPT !.room_id = register.data["roomId"]]

RegisterCompleted(register) ==
  /\ register.ok
  /\ {"sessionToken", "agentId", "roomId"} \subseteq DOMAIN register.data

\* step 2 of setup: the first skill listed and its first action
SkillsDiscovered(g, skills) ==
  IF skills = <<>> THEN g
  ELSE LET g1 == [g EXCEPT !.skill_id = skills[1].id]
       IN IF skills[1].actions = <<>> THEN g1
          ELSE [g1 EXCEPT !.action_id = skills[1].actions[1]]

\* step 4 of setup: the meeting id is kept when the meeting was created
MeetingCreated(g, meeting_id, created) ==
  [g EXCEPT !.meeting_id = IF created THEN meeting_id ELSE None]

\* setup against a server that answers the registration with register, the
\* skill list with skills and the meeting's creation with created
setup(g, register, skills, meeting_id, created) ==
  IF ~RegisterCompleted(register) THEN RegisterStored(g, register)
  ELSE MeetingCreated(SkillsDiscovered(RegisterStored(g, register), skills),
                      meeting_id, created)

\* the headers without those llhttp would reject
Sanitized(headers) ==
  IF headers.none \/ DOMAIN headers.items = {} THEN headers
  ELSE [headers EXCEPT !.items =
          [n \in {m \in DOMAIN headers.items :
                    /\ _is_safe_header_value(m)
                    /\ _is_safe_header_value(headers.items[m])}
             |-> headers.items[n]]]

NeedsAuth(path) == ~ \E s \in _UNAUTHENTICATED_SUFFIXES : EndsWith(path, s)

UseFakeToken_never(path) == FALSE

UseFakeToken(path) == \E s \in _FAKE_TOKEN_SUFFIXES : EndsWith(path, s)

SetItem(items, key, value) ==
  [n \in DOMAIN items \cup {key} |-> IF n = key THEN value ELSE items[n]]

\* the Authorization header injected
WithAuth(g, path, headers) ==
  IF ~NeedsAuth(path) THEN headers
  ELSE LET h == IF headers.none THEN [none |-> FALSE, items |-> <<>>]
                ELSE headers
       IN IF UseFakeToken(path)
            THEN [h EXCEPT !.items =
                    SetItem(h.items, Authorization, Bearer(_FAKE_TOKEN))]
          ELSE IF g.session_token # None
            THEN [h EXCEPT !.items =
                    SetItem(h.items, Authorization, Bearer(g.session_token))]
          ELSE h

\* "auto"
Auto == <<97, 117, 116, 111>>

\* the value a key of the body is replaced with, None for a key left alone
Replacement(g, path, key) ==
  CASE key = "agentId" -> g.agent_id
    [] key = "roomId" ->
         IF g.room_id = None THEN None
         ELSE IF EndsWith(path, <<47, 114, 101, 103, 105, 115, 116, 101, 114>>)
           THEN Auto
         ELSE g.room_id
    [] key = "sessionToken" -> g.session_token
    [] key = "skillId" -> g.skill_id
    [] key = "actionId" -> g.action_id
    [] key = "meetingId" -> g.meeting_id
    [] OTHER -> None

\* the body with its fuzzed ids replaced by the registered ones
WithIds(g, path, body) ==
  IF body.kind # "dict" \/ DOMAIN body.fields = {} \/ UseFakeToken(path)
    THEN body
  ELSE [body EXCEPT !.fields =
          [k \in DOMAIN body.fields |->
             IF Replacement(g, path, k) # None THEN Replacement(g, path, k)
             ELSE body.fields[k]]]

\* "/meeting/leave" is preceded by a join of the registered agent
PreJoin(g, path) ==
  /\ EndsWith(path, <<47, 109, 101, 101, 116, 105, 110, 103,
                      47, 108, 101, 97, 118, 101>>)
  /\ g.meeting_id # None
  /\ g.session_token # None
  /\ g.agent_id # None
  /\ g.room_id # None

\* the request before_call sends for the case, under the globals g
before_call(g, case) ==
  [path |-> case.path,
   headers |-> WithAuth(g, case.path, Sanitized(case.headers)),
   body |-> WithIds(g, case.path, case.body),
   pre_join |-> PreJoin(g, case.path)]

(***************************************************************************)
(* pipeline_palette of asset_pipeline.py.                                  *)
(***************************************************************************)

\* the loops over the pairs i < j, from pair <<i, j>> on: each comparison is
\* appended, and result["compatible"] is read, a KeyError when the result
\* holds no such key
RECURSIVE CrossCompare(_, _, _, _)
CrossCompare(palettes, i, j, comparisons) ==
  IF i > Len(palettes) THEN [raised |-> "none", comparisons |-> comparisons]
  ELSE IF j > Len(palettes)
    THEN CrossCompare(palettes, i + 1, i + 2, comparisons)
  ELSE LET result == compare_palettes(palettes[i].palette,
                                      palettes[j].palette)
           appended == Append(comparisons,
                              [packA |-> palettes[i].name,
                               packB |-> palettes[j].name,
                               result |-> result])
       IN IF "compatible" \notin DOMAIN result
            THEN [raised |-> "KeyError", comparisons |-> appended]
          ELSE CrossCompare(palettes, i, j + 1, appended)

\* tilemaps are the images at tilemap_paths; raised is the exception raised,
\* report the report returned and written whether the report's file is
\* written
pipeline_palette(tilemaps) ==
  LET palettes == [i \in DOMAIN tilemaps |->
                     [name |-> i,
                      palette |-> extract_tilemap_palette(tilemaps[i])]]
      compared == CrossCompare(palettes, 1, 2, <<>>)
  IN IF compared.raised # "none"
       THEN [raised |-> compared.raised, report |-> <<>>, written |-> FALSE]
     ELSE [raised |-> "none",
           report |->
             [packs |-> [i \in DOMAIN palettes |->
                           [name |-> palettes[i].name,
                            stats |-> palettes[i].palette.stats]],
              comparisons |-> compared.comparisons,
              overallCompatibility |->
                \A k \in DOMAIN compared.comparisons :
                  compared.comparisons[k].result.compatible],
           written |-> TRUE]

(***************************************************************************)
(* main of extract_tileset.py, on a manifest whose packs are valid.  The   *)
(* manifest's slots are read one by one by the validation loop.            *)
(***************************************************************************)

\* _require_int(value, field, minimum = minimum) of an integer raises
RequireIntRaises(value, minimum) == value < minimum

\* the images of the packs, as _load_pack_images returns them
pack_images ==
  [pack \in {"town", "city"} |->
     [image |-> IF pack = "town" THEN CodedTile(4, 2, 1)
                ELSE CodedTile(2, 2, 2),
      spacing |-> 0]]

SlotOutOfRange_never(slot_index, expected_slots) == FALSE

\* if slot_index >= expected_slots: raise CurationError
SlotOutOfRange(slot_index, expected_slots) == slot_index >= expected_slots

\* one pass of the validation loop raises
SlotRaises(slot, expected_slots, seen_slots) ==
  \/ RequireIntRaises(slot.slot, 0)
  \/ SlotOutOfRange(slot.slot, expected_slots)
  \/ slot.slot \in seen_slots
  \/ slot.pack \notin DOMAIN pack_images
  \/ RequireIntRaises(slot.col, 0)
  \/ RequireIntRaises(slot.row, 0)

\* sorted_slots.sort(key = slot): a stable insertion of item
RECURSIVE InsertBySlot(_, _)
InsertBySlot(sorted, item) ==
  IF sorted = <<>> THEN <<item>>
  ELSE IF sorted[Len(sorted)].slot <= item.slot THEN Append(sorted, item)
  ELSE Append(InsertBySlot(SubSeq(sorted, 1, Len(sorted) - 1), item),
              sorted[Len(sorted)])

RECURSIVE SortBySlot(_)
SortBySlot(items) ==
  IF items = <<>> THEN <<>>
  ELSE InsertBySlot(SortBySlot(SubSeq(items, 1, Len(items) - 1)),
                    items[Len(items)])

\* the cell of the output a slot is pasted at
OutCell(slot_index, columns) ==
  <<slot_index % columns, slot_index \div columns>>

_build_output_meta(tile_size, columns, rows) ==
  [name |-> "tileset", tilewidth |-> tile_size, tileheight |-> tile_size,
   tilecount |-> columns * rows, columns |-> columns,
   imagewidth |-> columns * tile_size, imageheight |-> rows * tile_size]

(***************************************************************************)
(* The caller.                                                             *)
(***************************************************************************)
\* the matrix sizes and directions a caller passes: the supported ones and
\* one unsupported value of each
MatrixSizes == {2, 4, 8}

MatrixSizeInputs == MatrixSizes \cup {3}

DirectionInputs == Directions \cup {"center"}

Init ==
  /\ pc = "idle"
  /\ op = "none"
  /\ args = <<>>
  /\ ret = <<>>
  /\ frame = <<>>
  /\ _session_token = None
  /\ _agent_id = None
  /\ _room_id = None
  /\ _skill_id = None
  /\ _action_id = None
  /\ _meeting_id = None

ComputeBitmask ==
  /\ pc = "idle"
  /\ \E m \in NeighborMaps :
       /\ args' = [neighbor_map |-> m]
       /\ ret' = compute_bitmask(m)
  /\ op' = "compute_bitmask"
  /\ pc' = "done"
  /\ frame' = <<>>
  /\ UNCHANGED credentials

CreateBayerMask ==
  /\ pc = "idle"
  /\ \E width \in 1 .. MaxMask, height \in 1 .. MaxMask,
        direction \in DirectionInputs, matrix_size \in MatrixSizeInputs :
       /\ args' = [width |-> width, height |-> height,
                   direction |-> direction, matrix_size |-> matrix_size]
       /\ ret' = create_bayer_mask(width, height, direction, matrix_size)
  /\ op' = "create_bayer_mask"
  /\ pc' = "done"
  /\ frame' = <<>>
  /\ UNCHANGED credentials

DitherBlendTiles ==
  /\ pc = "idle"
  /\ \E w \in 1 .. MaxBlend, h \in 1 .. MaxBlend, same \in BOOLEAN,
        direction \in DirectionInputs, matrix_size \in MatrixSizeInputs :
       LET tile_a == CodedTile(w, h, 1)
           tile_b == IF same THEN CodedTile(w, h, 2)
                     ELSE CodedTile(2 * w + 1, 2 * h + 1, 2)
       IN /\ args' = [tile_a |-> tile_a, tile_b |-> tile_b,
                      direction |-> direction, matrix_size |-> matrix_size]
          /\ ret' = dither_blend_tiles(tile_a, tile_b, direction, matrix_size)
  /\ op' = "dither_blend_tiles"
  /\ pc' = "done"
  /\ frame' = <<>>
  /\ UNCHANGED credentials

\* the center tiles and, for each, the background tiles a caller passes:
\* coded or solid, the background of the center's size or of another size
CenterTiles(maxside) ==
  {CodedTile(w, h, 1) : w \in 2 .. maxside, h \in 2 .. maxside}
  \cup {SolidTile(w, h, Grass) : w \in 2 .. maxside, h \in 2 .. maxside}

BgTiles(center) ==
  {CodedTile(center.w, center.h, 2), SolidTile(center.w, center.h, Water),
   CodedTile(2 * center.w + 1, 2 * center.h + 1, 2)}

GenerateAutotile47Tile ==
  /\ pc = "idle"
  /\ \/ \E center \in CenterTiles(MaxTile), bitmask \in 0 .. 255,
           matrix_size \in MatrixSizes :
          \E bg \in BgTiles(center) :
            /\ args' = [center_tile |-> center, bg_tile |-> bg,
                        bitmask |-> bitmask, matrix_size |-> matrix_size]
            /\ ret' = generate_autotile47_tile(center, bg, bitmask,
                                               matrix_size)
     \* solid tiles of the usual size, 16 x 16
     \/ \E bitmask \in BlobKeys, matrix_size \in MatrixSizes :
          /\ args' = [center_tile |-> SolidTile(16, 16, Grass),
                      bg_tile |-> SolidTile(16, 16, Water),
                      bitmask |-> bitmask, matrix_size |-> matrix_size]
          /\ ret' = generate_autotile47_tile(SolidTile(16, 16, Grass),
                                             SolidTile(16, 16, Water),
                                             bitmask, matrix_size)
  /\ op' = "generate_autotile47_tile"
  /\ pc' = "done"
  /\ frame' = <<>>
  /\ UNCHANGED credentials

GenerateAutotile47Set ==
  /\ pc = "idle"
  /\ \/ \E center \in CenterTiles(MaxSetTile), matrix_size \in MatrixSizes :
          \E bg \in BgTiles(center) :
            /\ args' = [center_tile |-> center, bg_tile |-> bg, matrix_size |-> matrix_size]
            /\ ret' = generate_autotile47_set(center, bg, matrix_size)
     \* solid tiles of 8 x 8
     \/ \E matrix_size \in MatrixSizes :
          /\ args' = [center_tile |-> SolidTile(8, 8, Grass),
                      bg_tile |-> SolidTile(8, 8, Water),
                      matrix_size |-> matrix_size]
          /\ ret' = generate_autotile47_set(SolidTile(8, 8, Grass),
                                            SolidTile(8, 8, Water),
                                            matrix_size)
  /\ op' = "generate_autotile47_set"
  /\ pc' = "done"
  /\ frame' = <<>>
  /\ UNCHANGED credentials

\* the pixel values of scale2x inputs: two that differ in alpha only, and
\* two more for the tiles built around one neighbourhood
TwoPixels == {Grass, <<34, 139, 34, 0>>}

FourPixels == TwoPixels \cup {Water, <<30, 90, 200, 128>>}

\* the 3 x 3 tile whose centre P and four neighbours A (top), B (right),
\* C (left), D (bottom) are v[1] .. v[5], the corners being Grass
PlusTile(v) ==
  [w |-> 3, h |-> 3,
   px |-> [p \in Coords(3, 3) |->
             CASE p = <<1, 1>> -> v[1]
               [] p = <<1, 0>> -> v[2]
               [] p = <<2, 1>> -> v[3]
               [] p = <<0, 1>> -> v[4]
               [] p = <<1, 2>> -> v[5]
               [] OTHER -> Grass]]

\* the input is any tile of at most MaxScale x MaxScale cells over
\* TwoPixels, or a plus tile over FourPixels
Scale2x ==
  /\ pc = "idle"
  /\ \/ \E w \in 1 .. MaxScale, h \in 1 .. MaxScale :
          \E f \in [Coords(w, h) -> TwoPixels] :
            /\ args' = [tile |-> [w |-> w, h |-> h, px |-> f]]
            /\ ret' = _scale2x_vectorized([w |-> w, h |-> h, px |-> f])
     \/ \E v \in [1 .. 5 -> FourPixels] :
          /\ args' = [tile |-> PlusTile(v)]
          /\ ret' = _scale2x_vectorized(PlusTile(v))
  /\ op' = "_scale2x_vectorized"
  /\ pc' = "done"
  /\ frame' = <<>>
  /\ UNCHANGED credentials

\* the methods the command line offers, and one it does not
Methods == {"nearest", "scale2x", "scale3x", "hqx"}
MethodInputs == Methods \cup {"bicubic"}

\* a tile of two colours in a chessboard pattern
CheckerTile(w, h) ==
  [w |-> w, h |-> h,
   px |-> [p \in Coords(w, h) |->
             IF (p[1] + p[2]) % 2 = 0 THEN Grass ELSE Water]]

ResizeTiles ==
  UNION {{CodedTile(w, h, 1), SolidTile(w, h, Grass), CheckerTile(w, h)} :
           w \in 1 .. MaxResizeIn, h \in 1 .. MaxResizeIn}

\* resize_tile with a method other than scale2x: no loop, one step
ResizeTile ==
  /\ pc = "idle"
  /\ \E tile \in ResizeTiles, to_size \in 1 .. MaxResizeTo,
        method \in MethodInputs \ {"scale2x"} :
       /\ args' = [tile |-> tile, to_size |-> to_size, method |-> method]
       /\ ret' = resize_tile(tile, to_size, method)
  /\ op' = "resize_tile"
  /\ pc' = "done"
  /\ frame' = <<>>
  /\ UNCHANGED credentials

\* resize_tile(tile, to_size, "scale2x") up to its loop: scaled = tile,
\* current_size = w.  calls lists the resampling calls made so far.
ResizeScale2xEnter ==
  /\ pc = "idle"
  /\ \E tile \in ResizeTiles, to_size \in 1 .. MaxResizeTo :
       /\ args' = [tile |-> tile, to_size |-> to_size, method |-> "scale2x"]
       /\ frame' = [scaled |-> tile, current_size |-> tile.w, calls |-> <<>>]
  /\ op' = "resize_tile"
  /\ ret' = <<>>
  /\ pc' = "scale2x_loop"
  /\ UNCHANGED credentials

\* one iteration of the loop
ResizeScale2xPass ==
  /\ pc = "scale2x_loop"
  /\ Scale2xContinue(frame.current_size, args.to_size)
  /\ frame' = [scaled |-> _scale2x_vectorized(frame.scaled),
               current_size |-> frame.current_size * 2,
               calls |-> Append(frame.calls, "_scale2x_vectorized")]
  /\ UNCHANGED <<pc, op, args, ret>>
  /\ UNCHANGED credentials

\* the loop's exit, the final resample and the return
ResizeScale2xExit ==
  /\ pc = "scale2x_loop"
  /\ ~Scale2xContinue(frame.current_size, args.to_size)
  /\ IF frame.current_size # args.to_size
       THEN /\ ret' = ResizeNearest(frame.scaled, args.to_size, args.to_size)
            /\ frame' = [frame EXCEPT !.calls = Append(@, "resize")]
       ELSE /\ ret' = frame.scaled
            /\ frame' = frame
  /\ pc' = "done"
  /\ UNCHANGED <<op, args>>
  /\ UNCHANGED credentials

\* a caller that scales a square tile up by an integer factor k with
\* nearest neighbour, back down to its size, and up again
ResizeRoundTrip ==
  /\ pc = "idle"
  /\ \E tile \in {t \in ResizeTiles : t.w = t.h}, k \in 1 .. MaxFactor :
       LET N == tile.w
           up == resize_tile(tile, k * N, "nearest")
           back == resize_tile(up, N, "nearest")
           again == resize_tile(back, k * N, "nearest")
       IN /\ args' = [tile |-> tile, k |-> k]
          /\ ret' = [up |-> up, back |-> back, again |-> again]
  /\ op' = "resize_round_trip"
  /\ pc' = "done"
  /\ frame' = <<>>
  /\ UNCHANGED credentials

\* pixels for palette extraction: two that quantise to one colour, two
\* pairs of equal luminance, and alphas 50, 49 and 255
PalettePixels ==
  << Grass, <<39, 143, 38, 255>>, Water,
     <<0, 64, 216, 255>>, <<208, 0, 0, 255>>,
     <<0, 64, 232, 255>>, <<208, 0, 16, 255>>,
     <<255, 255, 255, 50>>, <<200, 10, 10, 49>>, <<0, 0, 0, 255>> >>

\* the one-row tile of the pixels of PalettePixels at the indices in picked
RECURSIVE PickPixels(_, _)
PickPixels(picked, i) ==
  IF i > Len(PalettePixels) THEN <<>>
  ELSE (IF i \in picked THEN <<PalettePixels[i]>> ELSE <<>>)
         \o PickPixels(picked, i + 1)

RowTile(pixels) ==
  [w |-> Len(pixels), h |-> 1,
   px |-> [p \in Coords(Len(pixels), 1) |-> pixels[p[1] + 1]]]

MinAlphaInputs == {0, 50, 51}

\* sorted_colors is kept in frame
ExtractPalette ==
  /\ pc = "idle"
  /\ \E picked \in (SUBSET (1 .. Len(PalettePixels))) \ {{}},
        max_colors \in 1 .. MaxColors, min_alpha \in MinAlphaInputs :
       LET tile == RowTile(PickPixels(picked, 1))
       IN /\ args' = [tile |-> tile, max_colors |-> max_colors,
                      min_alpha |-> min_alpha]
          /\ IF OpaquePixels(tile, min_alpha) = {}
               THEN /\ ret' = <<>>
                    /\ frame' = <<>>
               ELSE \E sorted_colors \in SortedColors(tile, min_alpha) :
                      /\ ret' = LimitColors(sorted_colors, max_colors)
                      /\ frame' = [sorted_colors |-> sorted_colors]
  /\ op' = "extract_palette"
  /\ pc' = "done"
  /\ UNCHANGED credentials

\* colours of palettes: quantised grass, grass, quantised water, and a
\* colour that differs from quantised grass in blue only
PaletteColors ==
  {<<32, 136, 32>>, <<34, 139, 34>>, <<24, 88, 200>>, <<32, 136, 48>>}

\* the palettes of at most MaxPalette colours
Palettes == UNION {[1 .. n -> PaletteColors] : n \in 0 .. MaxPalette}

\* each palette colour as an opaque pixel, with quantised grass also at
\* alpha 50 and 49; a solid tile; and a tile of the two alphas alone
SwapTiles ==
  {RowTile(<< <<34, 139, 34, 255>>, <<32, 136, 32, 255>>,
              <<32, 136, 32, 50>>, <<32, 136, 32, 49>>,
              <<24, 88, 200, 255>>, <<32, 136, 48, 255>> >>),
   SolidTile(2, 2, Grass),
   RowTile(<< <<32, 136, 32, 49>>, <<32, 136, 32, 50>> >>)}

\* no tolerance, the distance of grass from quantised grass, the default
ToleranceInputs == {0, 7, 24}

PaletteSwap ==
  /\ pc = "idle"
  /\ \E tile \in SwapTiles, source_palette \in Palettes,
        target_palette \in Palettes, tolerance \in ToleranceInputs :
       /\ args' = [tile |-> tile, source_palette |-> source_palette,
                   target_palette |-> target_palette,
                   tolerance |-> tolerance]
       /\ ret' = palette_swap(tile, source_palette, target_palette, tolerance)
  /\ op' = "palette_swap"
  /\ pc' = "done"
  /\ frame' = <<>>
  /\ UNCHANGED credentials

\* the images tiles are cropped from
Sheets == {CodedTile(w, h, 1) : w \in 1 .. MaxSheet, h \in 1 .. MaxSheet}

\* the <<col, row>> positions a caller passes, <<>> standing for None
Positions == (0 .. MaxCell) \X (0 .. MaxCell)
OptionalPositions == Positions \cup {<<>>}

ExtractTile ==
  /\ pc = "idle"
  /\ \E pack_img \in Sheets, tile_size \in 1 .. 2, spacing \in 0 .. 1,
        pos \in Positions :
       /\ args' = [img |-> pack_img, tile_size |-> tile_size,
                   spacing |-> spacing, col |-> pos[1], row |-> pos[2]]
       /\ ret' = _extract_tile(pack_img, tile_size, spacing, pos[1], pos[2])
  /\ op' = "_extract_tile"
  /\ pc' = "done"
  /\ frame' = <<>>
  /\ UNCHANGED credentials

\* pipeline_generate with nothing to generate and no resize: the two tiles
\* are cropped and kept in bg_tile and center_tile, and the empty record of
\* generated files is returned
PipelineGenerate ==
  /\ pc = "idle"
  /\ \E img \in Sheets, tile_size \in 1 .. 2, spacing \in 0 .. 1,
        bg_tile_pos \in OptionalPositions,
        center_tile_pos \in OptionalPositions :
       LET step == tile_size + spacing
           bg_tile == GetTileAt(img, step, tile_size, bg_tile_pos, 0, 0)
           center_tile ==
             GetTileAt(img, step, tile_size, center_tile_pos, 1, 0)
       IN /\ args' = [img |-> img, tile_size |-> tile_size,
                      spacing |-> spacing, bg_tile_pos |-> bg_tile_pos,
                      center_tile_pos |-> center_tile_pos]
          /\ frame' = [bg_tile |-> bg_tile, center_tile |-> center_tile]
          /\ ret' = [raised |-> IF bg_tile.raised # "none"
                                  THEN bg_tile.raised
                                  ELSE center_tile.raised,
                     generated |-> [transitions |-> <<>>, autotile |-> <<>>,
                                    variants |-> <<>>, resized |-> "None"]]
  /\ op' = "pipeline_generate"
  /\ pc' = "done"
  /\ UNCHANGED credentials

\* pixels of tilemaps: three hues, a grey, a dark colour and a pixel below
\* the alpha limit
TilemapPixels ==
  {Grass, Water, <<208, 0, 0, 255>>, <<128, 128, 128, 255>>,
   <<24, 20, 22, 255>>, <<34, 139, 34, 49>>}

\* the one-row image of n pixels whose first pixel is p, whose eleventh
\* pixel, if any, is r, and whose other pixels are q
Tilemap(p, q, r, n) ==
  [w |-> n, h |-> 1,
   px |-> [c \in Coords(n, 1) |->
             IF c[1] = 0 THEN p ELSE IF c[1] = 10 THEN r ELSE q]]

ExtractTilemapPalette ==
  /\ pc = "idle"
  /\ \E p \in TilemapPixels, q \in TilemapPixels, r \in TilemapPixels,
        n \in 1 .. MaxTilemap :
       /\ args' = [img |-> Tilemap(p, q, r, n)]
       /\ ret' = extract_tilemap_palette(Tilemap(p, q, r, n))
  /\ op' = "extract_tilemap_palette"
  /\ pc' = "done"
  /\ frame' = <<>>
  /\ UNCHANGED credentials

\* the tilemaps whose palettes are compared: of one pixel or of MaxTilemap,
\* and one of five colours
ComparedTilemaps ==
  {Tilemap(p, q, r, n) :
     p \in TilemapPixels, r \in TilemapPixels,
     q \in {Grass, <<128, 128, 128, 255>>, <<34, 139, 34, 49>>},
     n \in {1, MaxTilemap}}
  \cup {RowTile(<<Grass, Water, <<208, 0, 0, 255>>, <<128, 128, 128, 255>>,
                  <<24, 20, 22, 255>>>>)}

\* compare_palettes on the palettes extracted from two tilemaps
ComparePalettes ==
  /\ pc = "idle"
  /\ \E img_a \in ComparedTilemaps, img_b \in ComparedTilemaps :
       LET palette_a == extract_tilemap_palette(img_a)
           palette_b == extract_tilemap_palette(img_b)
       IN /\ args' = [palette_a |-> palette_a, palette_b |-> palette_b]
          /\ ret' = compare_palettes(palette_a, palette_b)
  /\ op' = "compare_palettes"
  /\ pc' = "done"
  /\ frame' = <<>>
  /\ UNCHANGED credentials

\* batch_resize_tilemap up to its loops.  The loops visit the tiles in
\* row-major order; here the order of the visits is left open, pending being
\* the tiles not visited yet and order the visits made, so that every order
\* of resizing and pasting, the one of the code included, is a behaviour.
BatchResizeEnter ==
  /\ pc = "idle"
  /\ \E w \in 1 .. MaxBatch, h \in 1 .. MaxBatch, from_size \in 1 .. 2,
        spacing \in 0 .. 1, to_size \in 1 .. MaxBatchTo,
        method \in MethodInputs :
       LET cols == GridCount(w, from_size, spacing)
           rows == GridCount(h, from_size, spacing)
       IN /\ cols * rows >= 1
          /\ cols * rows <= MaxCells
          /\ args' = [img |-> CodedTile(w, h, 1), from_size |-> from_size,
                      to_size |-> to_size, spacing |-> spacing,
                      method |-> method]
          /\ frame' = [output |-> ImageNew(cols * to_size, rows * to_size,
                                           <<0, 0, 0, 0>>),
                       cols |-> cols, rows |-> rows,
                       pending |-> (0 .. cols - 1) \X (0 .. rows - 1),
                       order |-> <<>>,
                       resized_count |-> 0]
  /\ op' = "batch_resize_tilemap"
  /\ ret' = <<>>
  /\ pc' = "batch_loop"
  /\ UNCHANGED credentials

\* one execution of the loop body
BatchResizeTile ==
  /\ pc = "batch_loop"
  /\ \E cell \in frame.pending :
       frame' = [frame EXCEPT
                   !.output = BatchPaste(@, args.img, args.from_size,
                                         args.to_size, args.spacing,
                                         args.method, cell[1], cell[2]),
                   !.pending = @ \ {cell},
                   !.order = Append(@, cell),
                   !.resized_count = @ + 1]
  /\ UNCHANGED <<pc, op, args, ret>>
  /\ UNCHANGED credentials

\* the end of the loops and the return
BatchResizeExit ==
  /\ pc = "batch_loop"
  /\ frame.pending = {}
  /\ ret' = [output |-> frame.output,
             fromSize |-> args.from_size, toSize |-> args.to_size,
             cols |-> frame.cols, rows |-> frame.rows,
             totalTiles |-> frame.resized_count,
             method |-> args.method]
  /\ pc' = "done"
  /\ UNCHANGED <<op, args, frame>>
  /\ UNCHANGED credentials

\* the paths of the fuzzed cases: "", "/register", "/unregister",
\* "/reconnect", "/channels", "/observe", "/meeting/leave" and
\* "/x/unregister"
Paths ==
  { <<>>,
    <<47, 114, 101, 103, 105, 115, 116, 101, 114>>,
    <<47, 117, 110, 114, 101, 103, 105, 115, 116, 101, 114>>,
    <<47, 114, 101, 99, 111, 110, 110, 101, 99, 116>>,
    <<47, 99, 104, 97, 110, 110, 101, 108, 115>>,
    <<47, 111, 98, 115, 101, 114, 118, 101>>,
    <<47, 109, 101, 101, 116, 105, 110, 103, 47, 108, 101, 97, 118, 101>>,
    <<47, 120, 47, 117, 110, 114, 101, 103, 105, 115, 116, 101, 114>> }

\* the fuzzed header names "Authorization", "X" and "X" followed by ESC
HeaderNames == {Authorization, <<88>>, <<88, 27>>}

\* the fuzzed values "f" and ESC
HeaderValues == {<<102>>, <<27>>}

\* the keys of a fuzzed body
BodyKeys ==
  { {}, {"name"}, {"agentId", "roomId"}, {"sessionToken"},
    {"skillId", "actionId", "meetingId"},
    {"agentId", "roomId", "sessionToken", "skillId", "actionId",
     "meetingId", "name"} }

\* what the server registers and lists: "t1", "a1", "r1", "s1", "x1", and
\* the meeting id "m1" setup draws
Registered ==
  [sessionToken |-> <<116, 49>>, agentId |-> <<97, 49>>,
   roomId |-> <<114, 49>>]

SkillLists ==
  { <<>>, <<[id |-> <<115, 49>>, actions |-> <<>>]>>,
    <<[id |-> <<115, 49>>, actions |-> <<(<<120, 49>>)>>]>> }

DrawnMeetingId == <<109, 49>>

\* the headers of a fuzzed case: None, or a dict of some of the names
Headers ==
  {[none |-> TRUE, items |-> <<>>]} \cup
  UNION {{[none |-> FALSE, items |-> values] :
            values \in [names -> HeaderValues]} :
         names \in SUBSET HeaderNames}

\* the body of a fuzzed case: None, a list, or a dict of fuzzed values "f"
Bodies ==
  {[kind |-> "none", fields |-> <<>>], [kind |-> "list", fields |-> <<>>]}
  \cup {[kind |-> "dict", fields |-> [k \in keys |-> <<102>>]] :
          keys \in BodyKeys}

\* the answers of the server to the registration: none, or a response with
\* some of the fields, its session token possibly null
Registrations ==
  {[ok |-> FALSE, data |-> <<>>]} \cup
  UNION {{[ok |-> TRUE,
           data |-> [k \in present |->
                       IF k \in nulls THEN None ELSE Registered[k]]] :
            nulls \in SUBSET (present \cap {"sessionToken"})} :
         present \in SUBSET DOMAIN Registered}

\* the answers of the server to setup: to the registration and, when setup
\* gets that far, to the skill list and the meeting's creation
Servers ==
  {[register |-> r, skills |-> <<>>, created |-> FALSE] :
     r \in {r \in Registrations : ~RegisterCompleted(r)}}
  \cup
  {[register |-> r, skills |-> k, created |-> c] :
     r \in {r \in Registrations : RegisterCompleted(r)},
     k \in SkillLists, c \in BOOLEAN}

\* before_call on a fuzzed case; while no session token is held it runs
\* setup first, against a server whose answers are arbitrary
BeforeCall ==
  /\ pc = "idle"
  /\ \E path \in Paths, headers \in Headers, body \in Bodies,
        server \in IF _session_token = None THEN Servers
                   ELSE {[register |-> [ok |-> FALSE, data |-> <<>>],
                          skills |-> <<>>, created |-> FALSE]} :
       LET case == [path |-> path, headers |-> headers, body |-> body]
           g == IF _session_token = None
                  THEN setup(Globals, server.register, server.skills,
                             DrawnMeetingId, server.created)
                ELSE Globals
       IN /\ args' = [case |-> case]
          /\ ret' = before_call(g, case)
          /\ _session_token' = g.session_token
          /\ _agent_id' = g.agent_id
          /\ _room_id' = g.room_id
          /\ _skill_id' = g.skill_id
          /\ _action_id' = g.action_id
          /\ _meeting_id' = g.meeting_id
  /\ op' = "before_call"
  /\ pc' = "done"
  /\ frame' = <<>>

\* the tilemaps of packs: one without an opaque pixel, one of grass, one of
\* water, one of five colours
PackTilemaps ==
  {Tilemap(<<34, 139, 34, 49>>, <<34, 139, 34, 49>>, <<34, 139, 34, 49>>, 1),
   Tilemap(Grass, Grass, Grass, 1),
   Tilemap(Water, Water, Water, 1),
   RowTile(<<Grass, Water, <<208, 0, 0, 255>>, <<128, 128, 128, 255>>,
             <<24, 20, 22, 255>>>>)}

PipelinePalette ==
  /\ pc = "idle"
  /\ \E n \in 0 .. MaxPacks :
       \E tilemaps \in [1 .. n -> PackTilemaps] :
         /\ args' = [tilemaps |-> tilemaps]
         /\ ret' = pipeline_palette(tilemaps)
  /\ op' = "pipeline_palette"
  /\ pc' = "done"
  /\ frame' = <<>>
  /\ UNCHANGED credentials

\* main reads the tileset's sizes and the length of its slot list
ExtractTilesetEnter ==
  /\ pc = "idle"
  /\ \E tile_size \in 0 .. 2, columns \in 0 .. MaxGridCells,
        rows \in 0 .. MaxGridCells :
       /\ columns * rows <= MaxGridCells
       /\ \E n \in 0 .. columns * rows + 1 :
            /\ args' = [tile_size |-> tile_size, columns |-> columns,
                        rows |-> rows, slots_len |-> n, slots |-> <<>>]
            /\ IF \/ RequireIntRaises(tile_size, 1)
                  \/ RequireIntRaises(columns, 1)
                  \/ RequireIntRaises(rows, 1)
                  \/ n # columns * rows
                 THEN /\ pc' = "done"
                      /\ ret' = [raised |-> "CurationError", files |-> {}]
                      /\ frame' = <<>>
                 ELSE /\ pc' = "validate_loop"
                      /\ ret' = <<>>
                      /\ frame' = [expected_slots |-> columns * rows,
                                   sorted_slots |-> <<>>, seen_slots |-> {},
                                   tileset_img |-> <<>>, next |-> 1,
                                   pastes |-> <<>>]
  /\ op' = "extract_tileset"
  /\ UNCHANGED credentials

\* one pass of the validation loop, on the next slot of the manifest
ExtractTilesetValidate ==
  /\ pc = "validate_loop"
  /\ Len(args.slots) < args.slots_len
  /\ \E slot_index \in -1 .. frame.expected_slots,
        pack \in {"town", "city", "forest"}, col \in -1 .. MaxSourceCol,
        row \in 0 .. 1 :
       LET slot == [slot |-> slot_index, pack |-> pack, col |-> col,
                    row |-> row]
       IN /\ args' = [args EXCEPT !.slots = Append(@, slot)]
          /\ IF SlotRaises(slot, frame.expected_slots, frame.seen_slots)
               THEN /\ pc' = "done"
                    /\ ret' = [raised |-> "CurationError", files |-> {}]
                    /\ frame' = frame
               ELSE /\ pc' = pc
                    /\ ret' = ret
                    /\ frame' = [frame EXCEPT
                                   !.seen_slots = @ \cup {slot_index},
                                   !.sorted_slots = Append(@, slot)]
  /\ UNCHANGED op
  /\ UNCHANGED credentials

\* the validation loop is left: the slots are counted and sorted, the output
\* image is created
ExtractTilesetSort ==
  /\ pc = "validate_loop"
  /\ Len(args.slots) = args.slots_len
  /\ IF Cardinality(frame.seen_slots) # frame.expected_slots
       THEN /\ pc' = "done"
            /\ ret' = [raised |-> "CurationError", files |-> {}]
            /\ frame' = frame
       ELSE /\ pc' = "paste_loop"
            /\ ret' = ret
            /\ frame' = [frame EXCEPT
                           !.sorted_slots = SortBySlot(@),
                           !.tileset_img =
                             ImageNew(args.columns * args.tile_size,
                                      args.rows * args.tile_size,
                                      Transparent)]
  /\ UNCHANGED <<op, args>>
  /\ UNCHANGED credentials

\* one pass of the paste loop
ExtractTilesetPaste ==
  /\ pc = "paste_loop"
  /\ frame.next <= Len(frame.sorted_slots)
  /\ LET slot == frame.sorted_slots[frame.next]
         pack_cfg == pack_images[slot.pack]
         tile == _extract_tile(pack_cfg.image, args.tile_size,
                               pack_cfg.spacing, slot.col, slot.row)
         out == OutCell(slot.slot, args.columns)
     IN IF tile.raised # "none"
          THEN /\ pc' = "done"
               /\ ret' = [raised |-> tile.raised, files |-> {}]
               /\ frame' = frame
          ELSE /\ pc' = pc
               /\ ret' = ret
               /\ frame' = [frame EXCEPT
                              !.tileset_img =
                                Paste(@, tile.image, out[1] * args.tile_size,
                                      out[2] * args.tile_size),
                              !.pastes = Append(@, out),
                              !.next = @ + 1]
  /\ UNCHANGED <<op, args>>
  /\ UNCHANGED credentials

\* the image and its description are written
ExtractTilesetSave ==
  /\ pc = "paste_loop"
  /\ frame.next > Len(frame.sorted_slots)
  /\ pc' = "done"
  /\ ret' = [raised |-> "none",
             files |-> {"outputPng", "outputMeta"},
             image |-> frame.tileset_img,
             meta |-> _build_output_meta(args.tile_size, args.columns,
                                         args.rows)]
  /\ UNCHANGED <<op, args, frame>>
  /\ UNCHANGED credentials

Return ==
  /\ pc = "done"
  /\ pc' = "idle"
  /\ op' = "none"
  /\ args' = <<>>
  /\ ret' = <<>>
  /\ frame' = <<>>
  /\ UNCHANGED credentials

Next ==
  \/ ComputeBitmask
  \/ CreateBayerMask
  \/ DitherBlendTiles
  \/ GenerateAutotile47Tile
  \/ GenerateAutotile47Set
  \/ Scale2x
  \/ ResizeTile
  \/ ResizeScale2xEnter
  \/ ResizeScale2xPass
  \/ ResizeScale2xExit
  \/ ResizeRoundTrip
  \/ ExtractPalette
  \/ PaletteSwap
  \/ ExtractTile
  \/ PipelineGenerate
  \/ ExtractTilemapPalette
  \/ ComparePalettes
  \/ BatchResizeEnter
  \/ BatchResizeTile
  \/ BatchResizeExit
  \/ BeforeCall
  \/ PipelinePalette
  \/ ExtractTilesetEnter
  \/ ExtractTilesetValidate
  \/ ExtractTilesetSort
  \/ ExtractTilesetPaste
  \/ ExtractTilesetSave
  \/ Return

Spec == Init /\ [][Next]_vars

\* the caller restricted to the bitmask classifier
NextBitmask ==
  \/ ComputeBitmask
  \/ Return

SpecBitmask == Init /\ [][NextBitmask]_vars

\* the caller restricted to the dither engine
NextDither ==
  \/ CreateBayerMask
  \/ DitherBlendTiles
  \/ Return

SpecDither == Init /\ [][NextDither]_vars

\* the caller restricted to single autotiles
NextAutotile ==
  \/ GenerateAutotile47Tile
  \/ Return

SpecAutotile == Init /\ [][NextAutotile]_vars

\* the caller restricted to whole autotile sets
NextAutotileSet ==
  \/ GenerateAutotile47Set
  \/ Return

SpecAutotileSet == Init /\ [][NextAutotileSet]_vars

\* the caller restricted to the scale2x kernel
NextScale ==
  \/ Scale2x
  \/ Return

SpecScale == Init /\ [][NextScale]_vars

NextResize ==
  \/ ResizeTile
  \/ ResizeScale2xEnter
  \/ ResizeScale2xPass
  \/ ResizeScale2xExit
  \/ ResizeRoundTrip
  \/ Return

SpecResize == Init /\ [][NextResize]_vars

\* the loop is straight-line code of one thread: a call that has entered it
\* keeps executing
FairResize ==
  SpecResize /\ WF_vars(ResizeScale2xPass) /\ WF_vars(ResizeScale2xExit)

NextPalette ==
  \/ ExtractPalette
  \/ PaletteSwap
  \/ Return

SpecPalette == Init /\ [][NextPalette]_vars

\* the caller restricted to the functions that take a matrix size, a
\* direction or a method
NextConfig ==
  \/ CreateBayerMask
  \/ DitherBlendTiles
  \/ ResizeTile
  \/ Return

SpecConfig == Init /\ [][NextConfig]_vars

\* the caller restricted to the functions that crop a tile
NextCrop ==
  \/ ExtractTile
  \/ PipelineGenerate
  \/ Return

SpecCrop == Init /\ [][NextCrop]_vars

\* the caller restricted to the palette statistics
NextCompare ==
  \/ ExtractTilemapPalette
  \/ ComparePalettes
  \/ PipelinePalette
  \/ Return

SpecCompare == Init /\ [][NextCompare]_vars

\* the caller restricted to batch_resize_tilemap
NextBatch ==
  \/ BatchResizeEnter
  \/ BatchResizeTile
  \/ BatchResizeExit
  \/ Return

SpecBatch == Init /\ [][NextBatch]_vars

\* the fuzzer's requests through the hooks
NextHooks ==
  \/ BeforeCall
  \/ Return

SpecHooks == Init /\ [][NextHooks]_vars

\* the tileset extractor
NextExtract ==
  \/ ExtractTilesetEnter
  \/ ExtractTilesetValidate
  \/ ExtractTilesetSort
  \/ ExtractTilesetPaste
  \/ ExtractTilesetSave
  \/ Return

SpecExtract == Init /\ [][NextExtract]_vars

(***************************************************************************)
(* Properties.                                                             *)
(***************************************************************************)
EdgeBits == <<<<"N", 1>>, <<"E", 4>>, <<"S", 16>>, <<"W", 64>>>>

\* corner name, its bit, its two adjacent edges
CornerBits ==
  <<<<"NE", 2, "N", "E">>, <<"SE", 8, "S", "E">>,
    <<"SW", 32, "S", "W">>, <<"NW", 128, "N", "W">>>>

\* C1: compute_bitmask sets an edge bit iff that neighbour is present and a
\* corner bit iff the diagonal neighbour and both adjacent edge neighbours
\* are present; all present gives 255, none present gives 0.
C1_BitmaskRule ==
  op = "compute_bitmask" =>
    LET m == args.neighbor_map
    IN /\ ret \in 0 .. 255
       /\ \A i \in DOMAIN EdgeBits :
            BitAnd(ret, EdgeBits[i][2]) <=> m[EdgeBits[i][1]]
       /\ \A i \in DOMAIN CornerBits :
            BitAnd(ret, CornerBits[i][2]) <=>
              (m[CornerBits[i][1]] /\ m[CornerBits[i][3]] /\ m[CornerBits[i][4]])
       /\ (\A k \in NeighborNames : m[k]) => ret = 255
       /\ (\A k \in NeighborNames : ~m[k]) => ret = 0

\* a diagonal neighbour present with one adjacent edge missing: bit clear
C1_Witness ==
  /\ op = "compute_bitmask"
  /\ args.neighbor_map["NE"] /\ args.neighbor_map["N"] /\ ~args.neighbor_map["E"]
  /\ ~BitAnd(ret, 2)
  /\ BitAnd(ret, 1)

\* C2: the values compute_bitmask returns over the 256 neighbour maps are
\* exactly the 47 keys of BLOB47_CATEGORIES, and the 47 names are pairwise
\* different.
C2_FortySevenCategories ==
  /\ op = "compute_bitmask" => ret \in BlobKeys
  /\ {compute_bitmask(m) : m \in NeighborMaps} = BlobKeys
  /\ Cardinality(BlobKeys) = 47
  /\ Len(BLOB47_CATEGORIES) = 47
  /\ \A i, j \in DOMAIN BLOB47_CATEGORIES :
       BLOB47_CATEGORIES[i][2] = BLOB47_CATEGORIES[j][2] => i = j

\* four diagonal neighbours and the east edge alone fall in category e_only
C2_Witness ==
  /\ op = "compute_bitmask"
  /\ \A k \in {"NE", "SE", "SW", "NW", "E"} : args.neighbor_map[k]
  /\ \A k \in {"N", "S", "W"} : ~args.neighbor_map[k]
  /\ BlobName(ret) = "e_only"

\* the threshold numerator the wrapped matrix gives at (x, y)
WrappedCell(matrix_size, x, y) ==
  Matrices(matrix_size)[(y % matrix_size) + 1][(x % matrix_size) + 1]

\* C7: dither_blend_tiles selects per pixel: the output pixel is tile B's
\* pixel where gradient > threshold and tile A's pixel otherwise, all four
\* channels from the same tile.
C7_BinarySelection ==
  op = "dither_blend_tiles" =>
    LET a == args.tile_a
        b == IF args.tile_b.w = a.w /\ args.tile_b.h = a.h
             THEN args.tile_b
             ELSE ResizeNearest(args.tile_b, a.w, a.h)
        n == Len(Matrices(args.matrix_size))
        selectsB(p) ==
          GradientGreater(Gradient(a.w, a.h, args.direction, p[1], p[2]),
                          WrappedCell(n, p[1], p[2]), n * n)
    IN /\ ret.w = a.w /\ ret.h = a.h
       /\ DOMAIN ret.px = Coords(a.w, a.h)
       /\ \A p \in Coords(a.w, a.h) :
            /\ ret.px[p] \in {a.px[p], b.px[p]}
            /\ ret.px[p] = (IF selectsB(p) THEN b.px[p] ELSE a.px[p])

\* a blend holding pixels of both tiles
C7_Witness ==
  /\ op = "dither_blend_tiles"
  /\ args.direction = "left"
  /\ args.tile_b.w = args.tile_a.w
  /\ \E p, q \in DOMAIN ret.px :
       /\ ret.px[p] = args.tile_a.px[p]
       /\ ret.px[q] = args.tile_b.px[q]

\* C8: each Bayer matrix of order n holds every k in 0 .. n*n - 1 (over
\* n*n) exactly once, and the threshold of create_bayer_mask at (x, y) is
\* matrix[y mod n][x mod n] for every width and height.
C8_BayerWrapped ==
  /\ \A n \in MatrixSizes :
       LET matrix == Matrices(n)
       IN /\ Len(matrix) = n
          /\ \A r \in 1 .. n : Len(matrix[r]) = n
          /\ \A k \in 0 .. n * n - 1 :
               Cardinality({rc \in (1 .. n) \X (1 .. n) : matrix[rc[1]][rc[2]] = k}) = 1
          /\ BayerDiv(matrix) = n * n
  /\ (op = "create_bayer_mask" /\ args.matrix_size \in MatrixSizes) =>
       LET n == args.matrix_size
           threshold == Threshold(args.width, args.height, n)
       IN /\ Len(threshold) = args.height
          /\ \A y \in 0 .. args.height - 1 :
               /\ Len(threshold[y + 1]) = args.width
               /\ \A x \in 0 .. args.width - 1 :
                    /\ threshold[y + 1][x + 1] = WrappedCell(n, x, y)
                    /\ ret[y + 1][x + 1] =
                         (IF GradientGreater(
                               Gradient(args.width, args.height, args.direction, x, y),
                               WrappedCell(n, x, y), n * n)
                          THEN 1 ELSE 0)

\* a mask wider and higher than its 8 x 8 matrix, set in some cells only
C8_Witness ==
  /\ op = "create_bayer_mask"
  /\ args.matrix_size = 8
  /\ args.width > 8 /\ args.height > 8
  /\ \E r, q \in 1 .. args.height : \E c \in 9 .. args.width :
       ret[r][c] = 1 /\ ret[q][c] = 0

\* number of cells equal to 1 in columns first .. last (0-based) of a mask
OnesInColumns(mask, first, last) ==
  Cardinality({rc \in (1 .. Len(mask)) \X (first + 1 .. last + 1) :
                 mask[rc[1]][rc[2]] = 1})

\* C9: for direction "left" and matrix size 4, width >= 4, the fraction of
\* mask cells equal to 1 in each successive block of 4 columns (the last
\* block may be narrower) is non-decreasing from left to right.
C9_LeftBlocksMonotone ==
  (/\ op = "create_bayer_mask"
   /\ args.direction = "left"
   /\ args.matrix_size = 4
   /\ args.width >= 4) =>
    LET nblocks == Ceil(args.width, 4)
        first(j) == 4 * j
        last(j) == Min(4 * j + 3, args.width - 1)
        cols(j) == last(j) - first(j) + 1
        ones(j) == OnesInColumns(ret, first(j), last(j))
    IN \A j \in 0 .. nblocks - 2 :
         ones(j) * cols(j + 1) <= ones(j + 1) * cols(j)

\* three blocks of strictly growing density
C9_Witness ==
  /\ op = "create_bayer_mask"
  /\ args.direction = "left"
  /\ args.matrix_size = 4
  /\ args.width = 12
  /\ OnesInColumns(ret, 0, 3) < OnesInColumns(ret, 4, 7)
  /\ OnesInColumns(ret, 4, 7) < OnesInColumns(ret, 8, 11)

\* the four quadrants of a w x h tile: name, box, the bits of the two
\* adjacent edges and the bit of the corner
Quadrants(w, h) ==
  LET half_w == w \div 2
      half_h == h \div 2
  IN {[x0 |-> 0, y0 |-> 0, x1 |-> half_w, y1 |-> half_h, e1 |-> 1, e2 |-> 64, c |-> 128],
      [x0 |-> half_w, y0 |-> 0, x1 |-> w, y1 |-> half_h, e1 |-> 1, e2 |-> 4, c |-> 2],
      [x0 |-> 0, y0 |-> half_h, x1 |-> half_w, y1 |-> h, e1 |-> 16, e2 |-> 64, c |-> 32],
      [x0 |-> half_w, y0 |-> half_h, x1 |-> w, y1 |-> h, e1 |-> 16, e2 |-> 4, c |-> 8]}

\* the cells of a quadrant box
QuadrantCells(q) == (q.x0 .. q.x1 - 1) \X (q.y0 .. q.y1 - 1)

\* C3: a quadrant whose two adjacent edge bits and corner bit are all set
\* is copied unchanged from the center tile; for bitmask 255 the whole
\* result equals center.
C3_FullQuadrantIsCenter ==
  op = "generate_autotile47_tile" =>
    /\ \A q \in Quadrants(args.center_tile.w, args.center_tile.h) :
         (/\ BitAnd(args.bitmask, q.e1)
          /\ BitAnd(args.bitmask, q.e2)
          /\ BitAnd(args.bitmask, q.c)) =>
           \A p \in QuadrantCells(q) : ret.px[p] = args.center_tile.px[p]
    /\ args.bitmask = 255 => ret = args.center_tile

\* C4: a quadrant neither of whose adjacent edge bits is set is copied
\* unchanged from the background tile (resized to the center's size),
\* whatever the corner bits; for bitmask 0 the whole result is background.
C4_ExposedQuadrantIsBackground ==
  op = "generate_autotile47_tile" =>
    LET bg == IF args.bg_tile.w = args.center_tile.w /\ args.bg_tile.h = args.center_tile.h
              THEN args.bg_tile
              ELSE ResizeNearest(args.bg_tile, args.center_tile.w, args.center_tile.h)
    IN /\ ret.w = args.center_tile.w /\ ret.h = args.center_tile.h
       /\ \A q \in Quadrants(args.center_tile.w, args.center_tile.h) :
            (~BitAnd(args.bitmask, q.e1) /\ ~BitAnd(args.bitmask, q.e2)) =>
              \A p \in QuadrantCells(q) : ret.px[p] = bg.px[p]
       /\ args.bitmask = 0 => ret = bg

\* the north-west corner bit set without the north and west edges, the
\* south and east edges present: top-left is background of another size
\* resampled, and the tile is not background everywhere
C4_Witness ==
  /\ op = "generate_autotile47_tile"
  /\ args.bitmask = 128 + 16 + 4
  /\ args.center_tile.w = 4 /\ args.center_tile.h = 3
  /\ args.bg_tile.w = 9
  /\ ret.px[<<1, 0>>] = <<3, 1, 2, 255>>
  /\ \E p \in DOMAIN ret.px : ret.px[p] = args.center_tile.px[p]

\* the names of the table
BlobNames == {BLOB47_CATEGORIES[i][2] : i \in DOMAIN BLOB47_CATEGORIES}

\* C5: generate_autotile47_set produces exactly 47 tiles with 47 pairwise
\* different names, one per table entry, and a sheet of 8*w by 6*h pixels;
\* the mapping reports cols = 8, rows = 6, totalTiles = 47.
C5_FortySevenTilesAndSheet ==
  op = "generate_autotile47_set" =>
    /\ Len(ret.saved) = 47
    /\ \A i, j \in DOMAIN ret.saved : ret.saved[i].name = ret.saved[j].name => i = j
    /\ {ret.saved[i].name : i \in DOMAIN ret.saved} = BlobNames
    /\ DOMAIN ret.outputs = BlobNames \cup {"_sheet", "_mapping"}
    /\ Cardinality(DOMAIN ret.outputs) = 49
    /\ \A i \in DOMAIN ret.saved :
         /\ ret.saved[i].tile.w = args.center_tile.w
         /\ ret.saved[i].tile.h = args.center_tile.h
    /\ ret.sheet.w = 8 * args.center_tile.w
    /\ ret.sheet.h = 6 * args.center_tile.h
    /\ DOMAIN ret.sheet.px = Coords(8 * args.center_tile.w, 6 * args.center_tile.h)
    /\ ret.mapping.cols = 8
    /\ ret.mapping.rows = 6
    /\ ret.mapping.totalTiles = 47

\* a set made from a non-square center and a background of another size
C5_Witness ==
  /\ op = "generate_autotile47_set"
  /\ args.center_tile.w = 4 /\ args.center_tile.h = 3
  /\ args.bg_tile.w = 9
  /\ Len(ret.saved) = 47
  /\ ret.sheet.w = 32 /\ ret.sheet.h = 18

\* C6: the set visits the table in strictly ascending bitmask order; the
\* index recorded for a bitmask is its rank in that order, and the sheet
\* cell at column index mod 8, row index div 8 holds the tile
\* generate_autotile47_tile returns for it, under the recorded name; no two
\* bitmasks share an index.
C6_AscendingOrderAndIndex ==
  op = "generate_autotile47_set" =>
    LET w == args.center_tile.w
        h == args.center_tile.h
        map == ret.mapping.bitmaskMap
    IN /\ \A i \in 1 .. Len(ret.saved) - 1 :
            ret.saved[i].bitmask < ret.saved[i + 1].bitmask
       /\ DOMAIN map = BlobKeys
       /\ \A b \in BlobKeys :
            LET i == map[b].index
                tile == generate_autotile47_tile(args.center_tile, args.bg_tile,
                                                 b, args.matrix_size)
            IN /\ i = Cardinality({k \in BlobKeys : k < b})
               /\ i \in 0 .. 46
               /\ map[b].name = BlobName(b)
               /\ ret.saved[i + 1].bitmask = b
               /\ ret.saved[i + 1].name = map[b].name
               /\ ret.saved[i + 1].tile = tile
               /\ ret.outputs[map[b].name].bitmask = b
               /\ Crop(ret.sheet, (i % 8) * w, (i \div 8) * h,
                       (i % 8) * w + w, (i \div 8) * h + h) = tile
       /\ \A b, c \in BlobKeys : map[b].index = map[c].index => b = c

\* bitmask 31, last in the table's own order of the edge-complete
\* entries, has rank 12 and its tile in cell (4, 1), unlike the tile of
\* the isolated configuration
C6_Witness ==
  /\ op = "generate_autotile47_set"
  /\ args.bg_tile.w = args.center_tile.w
  /\ ret.mapping.bitmaskMap[31] = [name |-> "nse_both", index |-> 12]
  /\ ret.mapping.bitmaskMap[255].index = 46
  /\ LET w == args.center_tile.w
         h == args.center_tile.h
     IN /\ Crop(ret.sheet, 4 * w, h, 5 * w, 2 * h) = ret.saved[13].tile
        /\ Crop(ret.sheet, 4 * w, h, 5 * w, 2 * h) # ret.saved[1].tile

\* the pixel of a tile at (x, y), a coordinate outside the tile standing
\* for the nearest pixel of its edge
Replicated(tile, x, y) ==
  tile.px[<<IF x < 0 THEN 0 ELSE IF x > tile.w - 1 THEN tile.w - 1 ELSE x,
            IF y < 0 THEN 0 ELSE IF y > tile.h - 1 THEN tile.h - 1 ELSE y>>]

\* C10: one scale2x pass on a W x H tile returns a 2W x 2H tile whose four
\* sub-pixels of every source pixel P with neighbours A (top), B (right),
\* C (left), D (bottom), replicated at the edges, follow the EPX rule,
\* equality comparing all four channels.
C10_Scale2xRule ==
  op = "_scale2x_vectorized" =>
    LET t == args.tile
    IN /\ ret.w = 2 * t.w /\ ret.h = 2 * t.h
       /\ DOMAIN ret.px = Coords(2 * t.w, 2 * t.h)
       /\ \A p \in Coords(t.w, t.h) :
            LET x == p[1]
                y == p[2]
                P == t.px[p]
                A == Replicated(t, x, y - 1)
                B == Replicated(t, x + 1, y)
                C == Replicated(t, x - 1, y)
                D == Replicated(t, x, y + 1)
            IN /\ ret.px[<<2 * x, 2 * y>>] =
                    (IF C = A /\ C # D /\ A # B THEN C ELSE P)
               /\ ret.px[<<2 * x + 1, 2 * y>>] =
                    (IF A = B /\ A # C /\ B # D THEN A ELSE P)
               /\ ret.px[<<2 * x, 2 * y + 1>>] =
                    (IF D = C /\ D # B /\ C # A THEN D ELSE P)
               /\ ret.px[<<2 * x + 1, 2 * y + 1>>] =
                    (IF B = D /\ B # A /\ D # C THEN B ELSE P)

\* a border pixel whose top-left sub-pixel takes the left neighbour, the
\* neighbours differing from it in alpha only, while its replicated right
\* neighbour leaves the bottom-right sub-pixel alone
C10_Witness ==
  /\ op = "_scale2x_vectorized"
  /\ args.tile.w = 2 /\ args.tile.h = 2
  /\ args.tile.px[<<1, 1>>] = Grass
  /\ args.tile.px[<<0, 1>>] = <<34, 139, 34, 0>>
  /\ ret.px[<<2, 2>>] = <<34, 139, 34, 0>>
  /\ ret.px[<<3, 3>>] = Grass

\* the number of doublings of w that stay within t
Doublings(w, t) == Cardinality({j \in 1 .. t : w * 2 ^ j <= t})

Scale2xReturned ==
  pc = "done" /\ op = "resize_tile" /\ args.method = "scale2x"

Scale2xCallsAsClaimed ==
  Scale2xReturned =>
    LET w == args.tile.w
        t == args.to_size
        k == Doublings(w, t)
    IN frame.calls =
         [i \in 1 .. k |-> "_scale2x_vectorized"]
           \o (IF w * 2 ^ k # t THEN <<"resize">> ELSE <<>>)

\* C11: resize_tile with method scale2x on a tile of width w >= 1 and target
\* t applies the Scale2x pass exactly k times, k the largest number with
\* w * 2^k <= t (0 when t < 2w), then resamples once with nearest neighbour
\* if and only if w * 2^k # t; and the doubling loop always terminates.
C11_Scale2xPasses ==
  /\ []Scale2xCallsAsClaimed
  /\ (pc = "scale2x_loop") ~> (pc = "done")

\* width 1 to target 5: two passes to width 4, then one resample
C11_Witness ==
  /\ Scale2xReturned
  /\ args.tile.w = 1
  /\ args.to_size = 5
  /\ frame.calls = <<"_scale2x_vectorized", "_scale2x_vectorized", "resize">>
  /\ ret.w = 5

\* every pixel of the tile is v
Uniform(tile, v) == \A p \in Coords(tile.w, tile.h) : tile.px[p] = v

\* C12: one scale2x pass on a uniform N x N tile returns the uniform
\* 2N x 2N tile of the same value, and none of the four rules fires at any
\* pixel, the border pixels with their replicated neighbours included.
C12_UniformStaysUniform ==
  (op = "_scale2x_vectorized" /\ args.tile.w = args.tile.h
     /\ Uniform(args.tile, args.tile.px[<<0, 0>>])) =>
    LET t == args.tile
        padded == PadEdge(t)
    IN /\ ret.w = 2 * t.w /\ ret.h = 2 * t.h
       /\ DOMAIN ret.px = Coords(2 * t.w, 2 * t.h)
       /\ Uniform(ret, t.px[<<0, 0>>])
       /\ \A p \in Coords(t.w, t.h) :
            LET nb == Scale2xNeighbors(padded, p[1], p[2])
            IN Scale2xRules(nb[1], nb[2], nb[3], nb[4])
                 = <<FALSE, FALSE, FALSE, FALSE>>

\* a uniform 3 x 3 tile, which has border, corner and interior pixels
C12_Witness ==
  /\ op = "_scale2x_vectorized"
  /\ args.tile.w = 3 /\ args.tile.h = 3
  /\ Uniform(args.tile, <<34, 139, 34, 0>>)
  /\ ret.w = 6 /\ ret.h = 6
  /\ Uniform(ret, <<34, 139, 34, 0>>)

\* C13: with method nearest, an N x N tile S and an integer factor k >= 1,
\* resizing S to kN and back to N returns S, resizing the kN tile to N and
\* back to kN returns the kN tile, and for k = 1 the resized tile is S.
C13_NearestRoundTrip ==
  op = "resize_round_trip" =>
    LET S == args.tile
        N == S.w
        k == args.k
    IN /\ ret.up.w = k * N /\ ret.up.h = k * N
       /\ ret.back = S
       /\ ret.again = ret.up
       /\ k = 1 => ret.up = S

\* a 3 x 3 tile of nine different pixels taken to 9 x 9 and back
C13_Witness ==
  /\ op = "resize_round_trip"
  /\ args.tile = CodedTile(3, 3, 1)
  /\ args.k = 3
  /\ ret.up.w = 9
  /\ ret.up.px[<<8, 4>>] = CodedTile(3, 3, 1).px[<<2, 1>>]
  /\ ret.back = args.tile

\* the colour with the low three bits of each channel cleared
LowBitsCleared(c) == [k \in 1 .. 3 |-> c[k] - (c[k] % 8)]

\* the quantised colours of the pixels of alpha at least min_alpha
UniqueQuantised(tile, min_alpha) ==
  {LowBitsCleared(SubSeq(tile.px[p], 1, 3)) :
     p \in {q \in Coords(tile.w, tile.h) : tile.px[q][4] >= min_alpha}}

\* C14: every entry of the list extract_palette returns is the 5-bit
\* quantisation of some pixel of alpha >= min_alpha, no two entries are
\* equal, luminance never decreases along the list, and the length is at
\* most max_colors; when there are more unique quantised colours than
\* max_colors, the list is the entries of the sorted list at max_colors
\* evenly spaced indices, the first and the last entry among them when
\* max_colors >= 2.
C14_PaletteInvariants ==
  (pc = "done" /\ op = "extract_palette") =>
    LET unique == UniqueQuantised(args.tile, args.min_alpha)
        n == Cardinality(unique)
        m == args.max_colors
    IN /\ \A i \in 1 .. Len(ret) : ret[i] \in unique
       /\ \A i, j \in 1 .. Len(ret) : i # j => ret[i] # ret[j]
       /\ \A i, j \in 1 .. Len(ret) :
            i < j => 299 * ret[i][1] + 587 * ret[i][2] + 114 * ret[i][3]
                       <= 299 * ret[j][1] + 587 * ret[j][2] + 114 * ret[j][3]
       /\ Len(ret) <= m
       /\ n <= m => Len(ret) = n
       /\ n > m =>
            LET sorted == frame.sorted_colors
            IN /\ Len(sorted) = n
               /\ {sorted[i] : i \in 1 .. n} = unique
               /\ \A i, j \in 1 .. n :
                    i < j => 299 * sorted[i][1] + 587 * sorted[i][2]
                               + 114 * sorted[i][3]
                             <= 299 * sorted[j][1] + 587 * sorted[j][2]
                                  + 114 * sorted[j][3]
               /\ Len(ret) = m
               /\ \A i \in 1 .. m :
                    ret[i] = sorted[1 + (IF m = 1 THEN 0
                                         ELSE ((i - 1) * (n - 1)) \div (m - 1))]
               /\ m >= 2 => ret[1] = sorted[1] /\ ret[m] = sorted[n]

\* nine unique colours cut down to four: indices 0, 2, 5 and 8
C14_Witness ==
  /\ pc = "done" /\ op = "extract_palette"
  /\ args.max_colors = 4
  /\ args.min_alpha = 0
  /\ Len(frame.sorted_colors) = 9
  /\ ret = <<frame.sorted_colors[1], frame.sorted_colors[3],
             frame.sorted_colors[6], frame.sorted_colors[9]>>
  /\ ret[1] = <<0, 0, 0>>
  /\ ret[4] = <<248, 248, 248>>

\* a call of palette_swap with palettes of one length has returned
Swapped ==
  /\ pc = "done" /\ op = "palette_swap"
  /\ Len(args.source_palette) = Len(args.target_palette)

\* the indices of the source entries within tolerance of the colour
Matches(rgb) ==
  {j \in 1 .. Len(args.source_palette) :
     LET e == args.source_palette[j]
     IN (IF rgb[1] > e[1] THEN rgb[1] - e[1] ELSE e[1] - rgb[1])
        + (IF rgb[2] > e[2] THEN rgb[2] - e[2] ELSE e[2] - rgb[2])
        + (IF rgb[3] > e[3] THEN rgb[3] - e[3] ELSE e[3] - rgb[3])
          <= args.tolerance}

SourceColors ==
  {args.source_palette[j] : j \in 1 .. Len(args.source_palette)}

\* C16: palette_swap with tolerance = 0 changes no pixel whose quantised
\* colour (low three bits of each channel cleared) is absent from the source
\* palette, for every tile, source palette and target palette of its length.
C16_QuantisedAbsentUnchanged ==
  (Swapped /\ args.tolerance = 0) =>
    \A p \in Coords(args.tile.w, args.tile.h) :
      LowBitsCleared(SubSeq(args.tile.px[p], 1, 3)) \notin SourceColors
        => ret.image.px[p] = args.tile.px[p]

\* C16, amended: palette_swap with tolerance = 0 changes no pixel whose own
\* colour is absent from the source palette; so when every source entry is a
\* quantised colour, it changes no pixel whose quantised colour is absent.
C16_AbsentUnchanged ==
  (Swapped /\ args.tolerance = 0) =>
    \A p \in Coords(args.tile.w, args.tile.h) :
      LET rgb == SubSeq(args.tile.px[p], 1, 3)
      IN /\ rgb \notin SourceColors => ret.image.px[p] = args.tile.px[p]
         /\ ((\A c \in SourceColors : LowBitsCleared(c) = c)
               /\ LowBitsCleared(rgb) \notin SourceColors)
              => ret.image.px[p] = args.tile.px[p]

\* the source palette holds quantised grass and water: the pixels of these
\* colours change, the grass pixel, whose quantised colour is present, and
\* the pixel that differs in blue do not
C16_Witness ==
  /\ Swapped
  /\ args.tolerance = 0
  /\ args.tile.w = 6
  /\ args.source_palette = << <<32, 136, 32>>, <<24, 88, 200>> >>
  /\ args.target_palette = << <<32, 136, 48>>, <<34, 139, 34>> >>
  /\ ret.image.px[<<0, 0>>] = args.tile.px[<<0, 0>>]
  /\ ret.image.px[<<5, 0>>] = args.tile.px[<<5, 0>>]
  /\ ret.image.px[<<1, 0>>] = <<32, 136, 48, 255>>
  /\ ret.image.px[<<4, 0>>] = <<34, 139, 34, 255>>

\* C17: palette_swap called with a source and a target palette of different
\* lengths raises an error and returns no image, no pixel having been
\* recoloured: the caller's tile is as it was.
C17_MismatchRaises ==
  (pc = "done" /\ op = "palette_swap"
     /\ Len(args.source_palette) # Len(args.target_palette)) =>
    /\ ret.raised = "ValueError"
    /\ ret.image = <<>>
    /\ ret.tile = args.tile

\* a source palette of one colour that matches pixels of the tile, and a
\* target palette of two
C17_Witness ==
  /\ pc = "done" /\ op = "palette_swap"
  /\ args.tile.w = 6
  /\ args.source_palette = << <<32, 136, 32>> >>
  /\ Len(args.target_palette) = 2
  /\ ret.raised = "ValueError"
  /\ ret.tile = args.tile

\* the call was given a matrix size or a direction that is not supported
UnsupportedDither ==
  \/ args.matrix_size \notin MatrixSizes
  \/ args.direction \notin Directions

\* C18: create_bayer_mask and dither_blend_tiles with a matrix size outside
\* {2, 4, 8} or a direction outside the ten known names, and resize_tile
\* with a method outside {nearest, scale2x, scale3x, hqx}, raise an error
\* and return no buffer: no mask and no image comes back.
C18_UnsupportedIsFatal ==
  pc = "done" =>
    /\ (op = "create_bayer_mask" /\ UnsupportedDither)
         => DOMAIN ret # 1 .. args.height
    /\ (op = "dither_blend_tiles" /\ UnsupportedDither)
         => DOMAIN ret # {"w", "h", "px"}
    /\ (op = "resize_tile" /\ args.method \notin Methods)
         => DOMAIN ret # {"w", "h", "px"}

\* the crop rectangle of the tile at (col, row) exceeds the image
Exceeds(img, tile_size, spacing, col, row) ==
  \/ col * (tile_size + spacing) + tile_size > img.w
  \/ row * (tile_size + spacing) + tile_size > img.h

\* the position pipeline_generate crops at: the one given, else the default
PositionOr(pos, default) == IF pos # <<>> THEN pos ELSE default

\* C19: a tile crop whose rectangle exceeds the width or the height of the
\* source image is a fatal error and yields no tile, clamped or padded, at
\* each crop site given a (col, row): _extract_tile of the tileset extractor
\* and get_tile of pipeline_generate.
C19_CropOutOfBoundsIsFatal ==
  pc = "done" =>
    /\ (op = "_extract_tile"
          /\ Exceeds(args.img, args.tile_size, args.spacing,
                     args.col, args.row))
         => ret.raised # "none" /\ ret.image = <<>>
    /\ op = "pipeline_generate" =>
         LET bg == PositionOr(args.bg_tile_pos, <<0, 0>>)
             center == PositionOr(args.center_tile_pos, <<1, 0>>)
         IN /\ Exceeds(args.img, args.tile_size, args.spacing, bg[1], bg[2])
                 => (ret.raised # "none" /\ frame.bg_tile.image = <<>>)
            /\ Exceeds(args.img, args.tile_size, args.spacing,
                       center[1], center[2])
                 => (ret.raised # "none" /\ frame.center_tile.image = <<>>)

\* C20: for every statistics record S that extract_tilemap_palette produces,
\* the records of images without a chromatic pixel (hue histogram all zero)
\* among them, compare_palettes(S, S) returns score 100, compatible true,
\* luminanceDiff 0 and contrastRangeDiff 0, and lists no issue.
C20_SelfComparisonIsPerfect ==
  (pc = "done" /\ op = "compare_palettes"
     /\ args.palette_a = args.palette_b /\ args.palette_a.stats # <<>>) =>
    /\ ret.score = 100
    /\ ret.compatible = TRUE
    /\ ret.details.luminanceDiff = 0
    /\ ret.details.contrastRangeDiff = 0
    /\ ret.issues = <<>>

\* compare_palettes has returned for two palettes that carry statistics
Compared ==
  /\ pc = "done" /\ op = "compare_palettes"
  /\ args.palette_a.stats # <<>> /\ args.palette_b.stats # <<>>

\* the four penalties of the claim, from the statistics of the call
ClaimedPenalties ==
  LET a == args.palette_a.stats
      b == args.palette_b.stats
      den == a.luminanceMean.d * b.luminanceMean.d
      diff == a.luminanceMean.n * b.luminanceMean.d
                - b.luminanceMean.n * a.luminanceMean.d
      lum_diff == IF diff < 0 THEN 0 - diff ELSE diff
      ranges == (a.luminanceMax - a.luminanceMin)
                  - (b.luminanceMax - b.luminanceMin)
      range_diff == IF ranges < 0 THEN 0 - ranges ELSE ranges
      ha == a.hueDistribution
      hb == b.hueDistribution
      dot == Dot(ha.counts, hb.counts, 1)
      sq_a == Dot(ha.counts, ha.counts, 1)
      sq_b == Dot(hb.counts, hb.counts, 1)
      ca == a.uniqueColors
      cb == b.uniqueColors
  IN << IF lum_diff > 40000 * den THEN 25
        ELSE IF lum_diff > 20000 * den THEN 10 ELSE 0,
        IF range_diff > 60000 THEN 15 ELSE 0,
        \* the similarity is the computed one: 0 for an all-zero histogram
        IF \/ sq_a = 0 \/ sq_b = 0
           \/ 4 * dot * dot < sq_a * sq_b
           \/ <<ha.total, sq_a, hb.total, sq_b, dot, 50>>
                \in CosineRoundedBelow
          THEN 30
        ELSE IF 100 * dot * dot < 49 * sq_a * sq_b THEN 15 ELSE 0,
        IF 10 * (IF ca < cb THEN ca ELSE cb)
             < 3 * (IF ca < cb THEN cb ELSE ca) THEN 15 ELSE 0 >>

\* C21: when both inputs carry statistics, compare_palettes returns score =
\* 100 minus 25 or 10 for a luminance-mean difference above 40 or 20, 15 for
\* a contrast-range difference above 60, 30 or 15 for a hue cosine
\* similarity below 0.5 or 0.7, and 15 for a unique-colour ratio below 0.3;
\* the score is between 15 and 100, compatible is true iff score >= 60, and
\* one issue is listed per penalty applied.
C21_ScoreIsSumOfPenalties ==
  Compared =>
    LET p == ClaimedPenalties
    IN /\ ret.score = 100 - (p[1] + p[2] + p[3] + p[4])
       /\ ret.score >= 15 /\ ret.score <= 100
       /\ ret.compatible = (ret.score >= 60)
       /\ Len(ret.issues) = Cardinality({i \in 1 .. 4 : p[i] # 0})

\* all four penalties at once: five colours against one dark pixel
C21_Witness ==
  /\ Compared
  /\ args.palette_a.stats.uniqueColors = 5
  /\ args.palette_b.stats.uniqueColors = 1
  /\ ClaimedPenalties = <<25, 15, 30, 15>>
  /\ ret.score = 15
  /\ ret.compatible = FALSE
  /\ Len(ret.issues) = 4

\* C22: batch_resize_tilemap has no coupling between tiles: the output cell
\* (col, row) is the source tile (col, row) resized to the target size with
\* the method, so resizing and pasting the cols * rows tiles in any order
\* gives the image of the sequential row-major run, with totalTiles =
\* cols * rows.
C22_OrderIndependent ==
  (pc = "done" /\ op = "batch_resize_tilemap") =>
    LET sequential == batch_resize_tilemap(args.img, args.from_size,
                                           args.to_size, args.spacing,
                                           args.method)
        step == args.from_size + args.spacing
        t == args.to_size
    IN /\ ret = sequential
       /\ ret.totalTiles = ret.cols * ret.rows
       /\ ret.output.w = ret.cols * t /\ ret.output.h = ret.rows * t
       /\ \A col \in 0 .. ret.cols - 1, row \in 0 .. ret.rows - 1 :
            Crop(ret.output, col * t, row * t, (col + 1) * t, (row + 1) * t)
              = resize_tile(Crop(args.img, col * step, row * step,
                                 col * step + args.from_size,
                                 row * step + args.from_size),
                            t, args.method)

\* four tiles of a 2 x 2 grid, each doubled by scale2x, the last one
\* pasted being the first of the row-major order
C22_Witness ==
  /\ pc = "done" /\ op = "batch_resize_tilemap"
  /\ ret.cols = 2 /\ ret.rows = 2
  /\ ret.totalTiles = 4
  /\ frame.order[4] = <<0, 0>>
  /\ args.from_size = 1 /\ args.to_size = 2 /\ args.method = "scale2x"
  /\ ret.output.px[<<3, 2>>] = args.img.px[<<1, 1>>]
  /\ ret.output.px[<<0, 1>>] = args.img.px[<<0, 0>>]

\* the call of the claim: solid 16 x 16 tiles, north and south present
NorthSouthScenario ==
  /\ op = "generate_autotile47_tile"
  /\ args.center_tile = SolidTile(16, 16, <<34, 139, 34, 255>>)
  /\ args.bg_tile = SolidTile(16, 16, <<30, 90, 200, 255>>)
  /\ args.bitmask = 17
  /\ args.matrix_size = 4

\* the number of background pixels in column x of rows y0 .. y1
BackgroundInColumn(img, x, y0, y1) ==
  Cardinality({y \in y0 .. y1 : img.px[<<x, y>>] = <<30, 90, 200, 255>>})

UnregisterPrepared ==
  /\ pc = "done"
  /\ op = "before_call"
  /\ EndsWith(args.case.path,
              <<47, 117, 110, 114, 101, 103, 105, 115, 116, 101, 114>>)

\* C24: for every request whose path ends in /unregister, whatever the
\* credential globals hold and whatever headers and body the fuzzer
\* generated, the Authorization header sent is the fixed invalid token, no
\* header sent carries the session token, and the body is sent as generated,
\* no field of it replaced by the agent id, room id or session token.
C24_UnregisterNeverAuthenticated ==
  UnregisterPrepared =>
    /\ ~ret.headers.none
    /\ Authorization \in DOMAIN ret.headers.items
    /\ ret.headers.items[Authorization] = Bearer(_FAKE_TOKEN)
    /\ \A n \in DOMAIN ret.headers.items :
         ret.headers.items[n] # Bearer(_session_token)
    /\ ret.body = args.case.body
    /\ ~ret.pre_join

\* an /unregister request prepared while all credentials are held, whose
\* generated body names the agent, the room and the session token and whose
\* generated headers already held an Authorization
C24_Witness ==
  /\ UnregisterPrepared
  /\ _session_token = <<116, 49>>
  /\ _agent_id = <<97, 49>>
  /\ _room_id = <<114, 49>>
  /\ args.case.body.kind = "dict"
  /\ {"agentId", "roomId", "sessionToken"} \subseteq DOMAIN args.case.body.fields
  /\ ~args.case.headers.none
  /\ Authorization \in DOMAIN args.case.headers.items
  /\ args.case.headers.items[Authorization] = <<102>>

\* C30: after any run of setup, the session token, the agent id and the room
\* id are all set or all unset, so that setup is run again, which is while
\* no session token is held, exactly while no registration is recorded; and
\* the skill, action and meeting ids are set only when all three are set.
C30_CredentialsAllOrNone ==
  LET three == {_session_token, _agent_id, _room_id}
  IN /\ three = {None} \/ None \notin three
     /\ (_session_token = None) <=> (_agent_id = None /\ _room_id = None)
     /\ {_skill_id, _action_id, _meeting_id} # {None} => None \notin three

\* C25: palette_swap leaves what it does not recolour untouched: the output
\* has the input's dimensions, the alpha of every pixel is unchanged, every
\* pixel of alpha < 50 and every pixel whose RGB is farther than tolerance
\* from all source entries is identical to the input pixel, and the caller's
\* input tile is not modified by the call.
C25_RestUntouched ==
  Swapped =>
    /\ ret.image.w = args.tile.w /\ ret.image.h = args.tile.h
    /\ \A p \in Coords(args.tile.w, args.tile.h) :
         /\ ret.image.px[p][4] = args.tile.px[p][4]
         /\ (args.tile.px[p][4] < 50
             \/ Matches(SubSeq(args.tile.px[p], 1, 3)) = {})
              => ret.image.px[p] = args.tile.px[p]
    /\ ret.tile = args.tile

\* quantised grass recoloured to water at tolerance 7: the pixels of grass
\* and of quantised grass at alpha 50 change; that at alpha 49, the water
\* pixel and the pixel that differs in blue, farther than 7 from the entry,
\* do not
C25_Witness ==
  /\ Swapped
  /\ args.tile.w = 6
  /\ args.tolerance = 7
  /\ args.source_palette = << <<32, 136, 32>> >>
  /\ args.target_palette = << <<24, 88, 200>> >>
  /\ ret.image.px[<<0, 0>>] = <<24, 88, 200, 255>>
  /\ ret.image.px[<<2, 0>>] = <<24, 88, 200, 50>>
  /\ ret.image.px[<<3, 0>>] = <<32, 136, 32, 49>>
  /\ ret.image.px[<<4, 0>>] = <<24, 88, 200, 255>>
  /\ ret.image.px[<<5, 0>>] = <<32, 136, 48, 255>>
  /\ ret.image # args.tile

\* a set has been generated from a center and a background that are solid,
\* of different colours, and of one even size >= 8
SolidSetGenerated ==
  /\ pc = "done"
  /\ op = "generate_autotile47_set"
  /\ LET c == args.center_tile
         b == args.bg_tile
     IN /\ c.w = c.h /\ c.w >= 8 /\ c.w % 2 = 0
        /\ b.w = c.w /\ b.h = c.h
        /\ c = SolidTile(c.w, c.h, c.px[<<0, 0>>])
        /\ b = SolidTile(b.w, b.h, b.px[<<0, 0>>])
        /\ c.px[<<0, 0>>] # b.px[<<0, 0>>]

\* C26: for a center and a background tile that are two different solid
\* colours (even tile size >= 8), the 47 tiles generated for the 47 table
\* bitmasks are pairwise different images; so are the tiles of two bitmasks
\* with the same edge bits that differ in a valid corner bit only.
C26_TilesPairwiseDifferent ==
  SolidSetGenerated =>
    \A i, j \in DOMAIN ret.saved :
      i # j => ret.saved[i].tile # ret.saved[j].tile

\* C27: for every method (nearest, scale2x, scale3x, hqx), every input tile
\* of width >= 1 and height >= 1, square or not, and every target t >= 1,
\* resize_tile returns a tile of exactly t x t pixels.
C27_ResizedToTarget ==
  (/\ pc = "done"
   /\ op = "resize_tile"
   /\ args.method \in {"nearest", "scale2x", "scale3x", "hqx"})
    => ret.w = args.to_size /\ ret.h = args.to_size

\* C28: compare_palettes returns a report containing both score and
\* compatible for every pair of inputs, a palette with empty statistics
\* included; so pipeline_palette, which reads the compatible of every pair of
\* tilemaps, completes and writes its report for any list of tilemaps.
C28_ReportAlwaysComplete ==
  /\ (pc = "done" /\ op = "compare_palettes")
       => {"score", "compatible"} \subseteq DOMAIN ret
  /\ (pc = "done" /\ op = "pipeline_palette")
       => ret.raised = "none" /\ ret.written

\* a run of the tileset extractor has ended
Extracted == pc = "done" /\ op = "extract_tileset"

\* the slot indices of the manifest are a permutation of 0..columns*rows-1
SlotsArePermutation ==
  /\ Len(args.slots) = args.columns * args.rows
  /\ {args.slots[i].slot : i \in DOMAIN args.slots}
       = 0 .. args.columns * args.rows - 1

\* the manifest read has one of the defects: a slot list of the wrong length,
\* an index out of range, a duplicate index, an unknown pack, a source tile
\* out of the bounds of its pack's image
ManifestDefect ==
  \/ args.slots_len # args.columns * args.rows
  \/ \E i \in DOMAIN args.slots :
       \/ args.slots[i].slot < 0
       \/ args.slots[i].slot >= args.columns * args.rows
       \/ \E j \in DOMAIN args.slots : j # i /\ args.slots[j].slot = args.slots[i].slot
       \/ args.slots[i].pack \notin {"town", "city"}
       \/ /\ args.slots[i].pack = "town"
          /\ \/ (args.slots[i].col + 1) * args.tile_size > 4
             \/ (args.slots[i].row + 1) * args.tile_size > 2
       \/ /\ args.slots[i].pack = "city"
          /\ \/ (args.slots[i].col + 1) * args.tile_size > 2
             \/ (args.slots[i].row + 1) * args.tile_size > 2

\* C29: the tileset extractor writes an output image only for a manifest
\* whose slot indices are a permutation of 0..columns*rows-1: a slot list of
\* the wrong length, an index out of range, a duplicate index, an unknown
\* pack or an out-of-bounds source tile raises CurationError before any
\* output file is written, and on success every output cell
\* (slot mod columns, slot div columns) is pasted exactly once.
C29_OutputOnlyForPermutation ==
  /\ (op = "extract_tileset" /\ pc # "done") => ret = <<>>
  /\ Extracted =>
       /\ ManifestDefect => ret.raised = "CurationError"
       /\ ret.raised # "none" => ret.files = {}
       /\ ret.files # {} =>
            /\ ret.raised = "none"
            /\ SlotsArePermutation
            /\ Len(frame.pastes) = args.columns * args.rows
            /\ \A c \in 0 .. args.columns - 1, r \in 0 .. args.rows - 1 :
                 /\ Cardinality({k \in DOMAIN frame.pastes :
                                   frame.pastes[k] = <<c, r>>}) = 1
                 /\ \E i \in DOMAIN args.slots :
                      /\ args.slots[i].slot % args.columns = c
                      /\ args.slots[i].slot \div args.columns = r

\* a tileset of two columns written from a manifest that lists slot 1 before
\* slot 0: slot 0 is pasted first, each cell holds its own source tile
C29_Witness ==
  /\ Extracted
  /\ ret.files = {"outputPng", "outputMeta"}
  /\ args.tile_size = 1 /\ args.columns = 2 /\ args.rows = 1
  /\ args.slots = <<[slot |-> 1, pack |-> "town", col |-> 2, row |-> 0],
                    [slot |-> 0, pack |-> "city", col |-> 1, row |-> 1]>>
  /\ frame.pastes = << <<0, 0>>, <<1, 0>> >>
  /\ ret.image.px[<<0, 0>>] = <<1, 1, 2, 255>>
  /\ ret.image.px[<<1, 0>>] = <<2, 0, 1, 255>>
====
